---------------------------- MODULE Spec2Model ----------------------------
(***************************************************************************)
(* A state-machine model of the referenda pallet                           *)
(* (substrate/frame/referenda/src/lib.rs).                                 *)
(*                                                                         *)
(* The storage items of the pallet (ReferendumCount, ReferendumInfoFor,    *)
(* TrackQueue, DecidingCount, MetadataOf) are variables, as are the        *)
(* collaborators the pallet writes to: the scheduler's agenda and the      *)
(* currency's free and reserved balances.  Every dispatchable and the      *)
(* Polling::access_poll entry point is one action; nudge_referendum and    *)
(* one_fewer_deciding are dispatched by the scheduler when their agenda    *)
(* entry falls due, at the start of the block, before any extrinsic.       *)
(***************************************************************************)
EXTENDS Integers, Sequences, FiniteSets, TLC

VARIABLES
    cfg,                \* the runtime configuration (Config constants, Tracks, input domains)
    now,                \* BlockNumberProvider::current_block_number()
    ReferendumCount,    \* StorageValue u32
    ReferendumInfoFor,  \* StorageMap ReferendumIndex -> ReferendumInfo
    TrackQueue,         \* StorageMap TrackId -> BoundedVec<(ReferendumIndex, Votes), MaxQueued>
    DecidingCount,      \* StorageMap TrackId -> u32
    MetadataOf,         \* StorageMap ReferendumIndex -> Hash
    Agenda,             \* the scheduler's pending dispatches
    free,               \* Currency: free balance per account
    reserved            \* Currency: reserved balance per account

vars == <<cfg, now, ReferendumCount, ReferendumInfoFor, TrackQueue, DecidingCount,
          MetadataOf, Agenda, free, reserved>>

---------------------------------------------------------------------------
(* Option<T> *)

None == << >>

Some(x) == <<x>>

IsSome(o) == o # << >>

IsNone(o) == o = << >>

Unwrap(o) == o[1]

Max(a, b) == IF a >= b THEN a ELSE b

Min(a, b) == IF a <= b THEN a ELSE b

\* BlockNumber::max_value(): larger than every block number the model reaches.
BlockMax == 1000000

\* a.saturating_add(b) on block numbers
SatAdd(a, b) == Min(a + b, BlockMax)

\* a.saturating_sub(b)
SatSub(a, b) == IF a >= b THEN a - b ELSE 0

---------------------------------------------------------------------------
(* Bounds of the model *)

\* Last block of a run.
MaxBlock == 3

\* Most referenda submitted in a run.
MaxReferenda == 2

\* Last block of a run of the configurations without preparation period.
MaxBlockShort == 2

\* Most referenda submitted in a run of the configurations with a contended queue.
MaxReferendaMany == 3

\* Accounts 1..NumAccounts may sign.
NumAccounts == 2

\* Free balance every account starts with.
InitialBalance == 4

---------------------------------------------------------------------------
(* Perbill and the threshold curves (types.rs) *)

\* Perbill::ACCURACY, scaled down from 10^9 to percent.
Accuracy == 100

\* Perbill::from_rational(p, q): rounds down, saturates at one, q = 0 is read as 1.
FromRational(p, q) ==
    LET d == Max(q, 1) IN IF p >= d THEN Accuracy ELSE (p * Accuracy) \div d

\* Perbill::saturating_div(a, b, Rounding::Down)
PerbillDivDown(a, b) ==
    IF b = 0 THEN Accuracy ELSE Min(Accuracy, (a * Accuracy) \div b)

\* Perbill::saturating_div(a, b, Rounding::Up)
PerbillDivUp(a, b) ==
    IF b = 0 THEN Accuracy ELSE Min(Accuracy, (a * Accuracy + b - 1) \div b)

\* Perbill * Perbill
PerbillMul(a, b) == (a * b) \div Accuracy

\* Perbill::mul_ceil(n)
MulCeil(p, n) == (p * n + Accuracy - 1) \div Accuracy

\* Curve::LinearDecreasing { length, floor, ceil }
LinearDecreasing(length, floor, ceil) ==
    [length |-> length, floor |-> floor, ceil |-> ceil]

\* Curve::threshold(x)
CurveThreshold(c, x) ==
    c.ceil - PerbillMul(PerbillDivDown(Min(x, c.length), c.length), c.ceil - c.floor)

\* Curve::passing(x, y)
CurvePassing(c, x, y) == y >= CurveThreshold(c, x)

\* Curve::delay(y)
CurveDelay(c, y) ==
    IF y < c.floor THEN Accuracy
    ELSE IF y > c.ceil THEN 0
    ELSE PerbillMul(PerbillDivUp(c.ceil - y, c.ceil - c.floor), c.length)

---------------------------------------------------------------------------
(* The tally (T::Tally: VoteTally), opaque to the pallet *)

\* Tally::new(track)
TallyNew == [ayes |-> 0, approval |-> 0, support |-> 0]

\* The tallies the voting pallet may leave behind in access_poll.
TallySet ==
    { TallyNew,
      [ayes |-> 1, approval |-> Accuracy, support |-> Accuracy \div 2],
      [ayes |-> 2, approval |-> Accuracy, support |-> Accuracy] }

---------------------------------------------------------------------------
(* Configuration *)

Accounts == 1 .. NumAccounts

\* T::Tracks: a track with the curves of the pallet's documentation
\* (1 - x/2 for approval and 1 - x for support).
TrackInfo(maxDeciding, deposit, prepare, decision, confirm, minEnactment) ==
    [ max_deciding |-> maxDeciding,
      decision_deposit |-> deposit,
      prepare_period |-> prepare,
      decision_period |-> decision,
      confirm_period |-> confirm,
      min_enactment_period |-> minEnactment,
      min_approval |-> LinearDecreasing(Accuracy, Accuracy \div 2, Accuracy),
      min_support |-> LinearDecreasing(Accuracy, 0, Accuracy) ]

\* DispatchTime::After(n) and DispatchTime::At(n), the enactment moment.
EnactAfter(n) == [kind |-> "After", n |-> n]

EnactAt(n) == [kind |-> "At", n |-> n]

\* DispatchTime::evaluate(now)
Evaluate(e, n) == IF e.kind = "At" THEN e.n ELSE SatAdd(n, e.n)

\* One track (id 0, max_deciding 1, a queue of one), two referenda, every input.
BaseConfig ==
    [ tracks |-> (0 :> TrackInfo(1, 2, 1, 2, 1, 1)),
      SubmissionDeposit |-> 1,
      MaxQueued |-> 1,
      UndecidingTimeout |-> 3,
      AlarmInterval |-> 1,
      maxBlock |-> MaxBlock,
      maxReferenda |-> MaxReferenda,
      submitters |-> {1},
      depositors |-> Accounts,
      enactments |-> {EnactAfter(0)},
      tallies |-> TallySet,
      hashes |-> {},
      refundable |-> 0 .. (MaxReferenda - 1),
      cancellable |-> 0 .. (MaxReferenda - 1),
      killable |-> 0 .. (MaxReferenda - 1),
      pollable |-> 0 .. (MaxReferenda - 1),
      annotatable |-> 0 .. (MaxReferenda - 1) ]

\* Three referenda contending for one deciding slot and a queue of one; no
\* preparation period, so that a short run reaches every phase.
FullQueueConfig ==
    [ BaseConfig EXCEPT
        !.tracks = (0 :> TrackInfo(1, 1, 0, 2, 1, 1)),
        !.maxBlock = MaxBlockShort,
        !.maxReferenda = MaxReferendaMany,
        !.depositors = {2},
        !.tallies = {TallyNew, [ayes |-> 2, approval |-> Accuracy, support |-> Accuracy]},
        !.refundable = {0},
        !.cancellable = {1},
        !.killable = {0},
        !.pollable = {2},
        !.annotatable = {0} ]

\* As FullQueueConfig, with room for two referenda in the queue; referendum 1,
\* the first to be queued, is the one that may be cancelled or killed.
QueueConfig ==
    [ FullQueueConfig EXCEPT
        !.MaxQueued = 2,
        !.killable = {1},
        !.tallies = TallySet,
        !.pollable = {1, 2} ]

TrackIds == DOMAIN cfg.tracks

\* T::Tracks::info(track)
TracksInfo(track) == IF track \in TrackIds THEN Some(cfg.tracks[track]) ELSE None

---------------------------------------------------------------------------
(* The scheduler (T::Scheduler): schedule, schedule_named, cancel *)

NudgeCall(index) == [name |-> "nudge_referendum", arg |-> index]

OneFewerCall(track) == [name |-> "one_fewer_deciding", arg |-> track]

EnactmentCall(index) == [name |-> "enactment", arg |-> index]

\* Index of the slot a new task gets in the agenda of block `when`.
AgendaSlot(ag, when) ==
    LET used == { e.index : e \in { x \in ag : x.when = when } }
    IN  IF used = {} THEN 0 ELSE 1 + (CHOOSE i \in used : \A j \in used : j <= i)

\* Scheduler::schedule(DispatchTime::At(when), None, priority, origin, call):
\* a block that is not in the future is refused.
SchedulerSchedule(ag, n, when, priority, call) ==
    IF when <= n
    THEN [ok |-> FALSE, ag |-> ag, address |-> <<when, 0>>]
    ELSE LET slot == AgendaSlot(ag, when)
         IN  [ok |-> TRUE,
              ag |-> ag \cup {[when |-> when, index |-> slot,
                               priority |-> priority, call |-> call]},
              address |-> <<when, slot>>]

\* Scheduler::cancel(address)
SchedulerCancel(ag, address) ==
    { e \in ag : <<e.when, e.index>> # address }

\* The task the scheduler dispatches next in block n: lowest priority number
\* first, then agenda order.
Due(ag, n) == { e \in ag : e.when <= n }

NextTask(ag, n) ==
    CHOOSE e \in Due(ag, n) :
        \A o \in Due(ag, n) :
            \/ e.priority < o.priority
            \/ e.priority = o.priority /\ e.when < o.when
            \/ e.priority = o.priority /\ e.when = o.when /\ e.index <= o.index

---------------------------------------------------------------------------
(* The storage one call works on: the pallet's storage items, the          *)
(* scheduler's agenda, the balances and the events deposited so far.       *)

deposit_event(S, e) == [S EXCEPT !.ev = Append(@, e)]

Event(name, index) == [name |-> name, index |-> index]

\* An event about a deposit: DepositSlashed { who, amount }.
DepositEvent(name, deposit) ==
    [name |-> name, who |-> deposit.who, amount |-> deposit.amount]

\* An event about a deposit of a referendum:
\* DecisionDepositRefunded { index, who, amount } and its like.
IndexDepositEvent(name, index, deposit) ==
    [name |-> name, index |-> index, who |-> deposit.who, amount |-> deposit.amount]

\* An event about metadata: MetadataSet { index, hash }, MetadataCleared.
HashEvent(name, index, hash) == [name |-> name, index |-> index, hash |-> hash]

\* Tally::ayes(track)
Ayes(tally) == tally.ayes

\* DispatchResult: Ok, or the error, with the storage the call leaves.
Ok(S) == [err |-> "Ok", S |-> S]

Err(e, S) == [err |-> e, S |-> S]

\* RuntimeOrigin
Signed(who) == [kind |-> "Signed", who |-> who]

Root == [kind |-> "Root", who |-> 0]

NoOrigin == [kind |-> "None", who |-> 0]

\* ensure_signed(origin)
ensure_signed(origin) == origin.kind = "Signed"

\* ensure_root(origin)
ensure_root(origin) == origin.kind = "Root"

\* ensure_signed_or_root(origin)
ensure_signed_or_root(origin) == origin.kind \in {"Signed", "Root"}

\* T::SubmitOrigin: any signed account.
SubmitOrigin(origin) == ensure_signed(origin)

\* T::CancelOrigin: Root.
CancelOrigin(origin) == ensure_root(origin)

\* T::KillOrigin: Root.
KillOrigin(origin) == ensure_root(origin)

---------------------------------------------------------------------------
(* ReferendumInfo *)

Ongoing(status) == [kind |-> "Ongoing", status |-> status]

Concluded(kind, end, submission_deposit, decision_deposit) ==
    [kind |-> kind, end |-> end,
     submission_deposit |-> submission_deposit,
     decision_deposit |-> decision_deposit]

Killed(end) == [kind |-> "Killed", end |-> end]

Deposit(who, amount) == [who |-> who, amount |-> amount]

IsOngoing(index) ==
    /\ index \in DOMAIN ReferendumInfoFor
    /\ ReferendumInfoFor[index].kind = "Ongoing"

---------------------------------------------------------------------------
(* BoundedVec<(ReferendumIndex, Votes), MaxQueued>; positions count from 0 *)

\* queue.iter().position(|(x, _)| *x == index)
Position(queue, index) ==
    LET hits == { i \in 1 .. Len(queue) : queue[i][1] = index }
    IN  IF hits = {} THEN None
        ELSE Some((CHOOSE i \in hits : \A j \in hits : i <= j) - 1)

\* queue.binary_search_by_key(&ayes, |x| x.1).unwrap_or_else(|x| x): on a sorted
\* queue, any position holding the key, else the insertion point.
BinarySearchResults(queue, ayes) ==
    LET hits == { i \in 1 .. Len(queue) : queue[i][2] = ayes }
    IN  IF hits # {} THEN { i - 1 : i \in hits }
        ELSE { Cardinality({ i \in 1 .. Len(queue) : queue[i][2] < ayes }) }

\* An insert that makes room in a full queue for no one: the element goes in
\* and every entry stays.
ForceInsertKeepAll(queue, index, element) ==
    IF Len(queue) < index
    THEN [ok |-> FALSE, q |-> queue]
    ELSE [ok |-> TRUE,
          q |-> SubSeq(queue, 1, index) \o <<element>> \o SubSeq(queue, index + 1, Len(queue))]

\* BoundedVec::force_insert_keep_right(index, element)
ForceInsertKeepRight(queue, index, element) ==
    IF cfg.MaxQueued < index \/ Len(queue) < index
    THEN [ok |-> FALSE, q |-> queue]
    ELSE IF Len(queue) < cfg.MaxQueued
    THEN [ok |-> TRUE,
          q |-> SubSeq(queue, 1, index) \o <<element>> \o SubSeq(queue, index + 1, Len(queue))]
    ELSE IF index = 0
    THEN [ok |-> FALSE, q |-> queue]
    ELSE [ok |-> TRUE,
          q |-> SubSeq(queue, 2, index) \o <<element>> \o SubSeq(queue, index + 1, Len(queue))]

\* BoundedVec::slide(index, insert_position)
Slide(queue, index, insert_position) ==
    IF Len(queue) <= index \/ Len(queue) < insert_position
    THEN queue
    ELSE IF index = insert_position \/ index + 1 = insert_position
    THEN queue
    ELSE IF insert_position < index
    THEN SubSeq(queue, 1, insert_position) \o <<queue[index + 1]>>
         \o SubSeq(queue, insert_position + 1, index)
         \o SubSeq(queue, index + 2, Len(queue))
    ELSE SubSeq(queue, 1, index) \o SubSeq(queue, index + 2, insert_position)
         \o <<queue[index + 1]>> \o SubSeq(queue, insert_position + 1, Len(queue))

\* InsertSorted::insert_sorted_by_key(item, |x| x.1), `pos` being the result of
\* the binary search for the item's key.
InsertSortedByKey(queue, item, pos) == ForceInsertKeepRight(queue, pos, item).q

---------------------------------------------------------------------------
(* Internal functions of the pallet.  Each takes the storage S it works on *)
(* and the current block n, and returns the storage it leaves behind.      *)

\* A set_alarm that schedules the call at `when` itself.
set_alarm_unrounded(S, n, call, when) ==
    LET r == SchedulerSchedule(S.ag, n, when, 128, call)
    IN  [S |-> [S EXCEPT !.ag = r.ag],
         alarm |-> IF r.ok THEN Some(<<when, r.address>>) ELSE None]

\* set_alarm(call, when): rounds `when` up to a multiple of AlarmInterval and
\* schedules `call` there; None when the scheduler refuses.
set_alarm(S, n, call, when) ==
    LET alarm_interval == Max(cfg.AlarmInterval, 1)
        rounded == Min(BlockMax,
                       (SatAdd(when, SatSub(alarm_interval, 1)) \div alarm_interval)
                           * alarm_interval)
        r == SchedulerSchedule(S.ag, n, rounded, 128, call)
    IN  [S |-> [S EXCEPT !.ag = r.ag],
         alarm |-> IF r.ok THEN Some(<<rounded, r.address>>) ELSE None]

\* ensure_no_alarm(status)
ensure_no_alarm(S, status) ==
    IF IsSome(status.alarm)
    THEN [S |-> [S EXCEPT !.ag = SchedulerCancel(@, Unwrap(status.alarm)[2])],
          status |-> [status EXCEPT !.alarm = None],
          changed |-> TRUE]
    ELSE [S |-> S, status |-> status, changed |-> FALSE]

\* ensure_alarm_at(status, index, alarm)
ensure_alarm_at(S, n, status, index, alarm) ==
    IF IsNone(status.alarm) \/ Unwrap(status.alarm)[1] # alarm
    THEN LET c == ensure_no_alarm(S, status)
             a == set_alarm(c.S, n, NudgeCall(index), alarm)
         IN  [S |-> a.S, status |-> [c.status EXCEPT !.alarm = a.alarm], changed |-> TRUE]
    ELSE [S |-> S, status |-> status, changed |-> FALSE]

\* note_one_fewer_deciding(track)
note_one_fewer_deciding(S, n, track) ==
    set_alarm(S, n, OneFewerCall(track), n + 1).S

\* is_passing(tally, elapsed, period, support_needed, approval_needed, id)
is_passing(tally, elapsed, period, support_needed, approval_needed) ==
    LET x == FromRational(Min(elapsed, period), period)
    IN  /\ CurvePassing(support_needed, x, tally.support)
        /\ CurvePassing(approval_needed, x, tally.approval)

\* A decision_time one block late for a referendum that is not confirming.
decision_time_late(deciding, tally, track) ==
    IF IsSome(deciding.confirming)
    THEN Unwrap(deciding.confirming)
    ELSE LET until_approval == CurveDelay(track.min_approval, tally.approval)
             until_support == CurveDelay(track.min_support, tally.support)
             offset == Max(until_support, until_approval)
         IN  SatAdd(deciding.since, MulCeil(offset, track.decision_period) + 1)

\* decision_time(deciding, tally, track_id, track)
decision_time(deciding, tally, track) ==
    IF IsSome(deciding.confirming)
    THEN Unwrap(deciding.confirming)
    ELSE LET until_approval == CurveDelay(track.min_approval, tally.approval)
             until_support == CurveDelay(track.min_support, tally.support)
             offset == Max(until_support, until_approval)
         IN  SatAdd(deciding.since, MulCeil(offset, track.decision_period))

\* The confirming block begin_deciding gives a referendum that is passing.
BeginConfirming(n, track) == Some(SatAdd(n, track.confirm_period))

\* begin_deciding(status, index, now, track)
begin_deciding(S, n, status, index, track) ==
    LET passing == is_passing(status.tally, 0, track.decision_period,
                              track.min_support, track.min_approval)
        S1 == deposit_event(S, Event("DecisionStarted", index))
        S2 == IF passing THEN deposit_event(S1, Event("ConfirmStarted", index)) ELSE S1
        confirming == IF passing THEN BeginConfirming(n, track) ELSE None
        deciding_status == [since |-> n, confirming |-> confirming]
        alarm == Max(decision_time(deciding_status, status.tally, track), SatAdd(n, 1))
    IN  [S |-> S2,
         status |-> [status EXCEPT !.in_queue = FALSE, !.deciding = Some(deciding_status)],
         alarm |-> Some(alarm),
         branch |-> IF passing THEN "BeginDecidingPassing" ELSE "BeginDecidingFailing"]

\* ready_for_deciding that puts the referendum in the queue of a track at
\* capacity without marking it in_queue.
ready_for_deciding_unmarked(S, n, track, index, status, pos) ==
    LET deciding_count == S.dc[status.track] IN
    IF deciding_count < track.max_deciding
    THEN begin_deciding([S EXCEPT !.dc[status.track] = deciding_count + 1],
                        n, status, index, track)
    ELSE LET item == <<index, Ayes(status.tally)>>
         IN  [S |-> [S EXCEPT !.q[status.track] = InsertSortedByKey(@, item, pos)],
              status |-> status,
              alarm |-> None,
              branch |-> "Queued"]

\* ready_for_deciding comparing with `<=`: a referendum takes a slot of a track
\* that is already at capacity.
ready_for_deciding_at_capacity(S, n, track, index, status, pos) ==
    LET deciding_count == S.dc[status.track] IN
    IF deciding_count <= track.max_deciding
    THEN begin_deciding([S EXCEPT !.dc[status.track] = deciding_count + 1],
                        n, status, index, track)
    ELSE LET item == <<index, Ayes(status.tally)>>
         IN  [S |-> [S EXCEPT !.q[status.track] = InsertSortedByKey(@, item, pos)],
              status |-> [status EXCEPT !.in_queue = TRUE],
              alarm |-> None,
              branch |-> "Queued"]

\* ready_for_deciding(now, track, index, status); `pos` is the outcome of the
\* binary search insert_sorted_by_key makes.
ready_for_deciding(S, n, track, index, status, pos) ==
    LET deciding_count == S.dc[status.track] IN
    IF deciding_count < track.max_deciding
    THEN begin_deciding([S EXCEPT !.dc[status.track] = deciding_count + 1],
                        n, status, index, track)
    ELSE LET item == <<index, Ayes(status.tally)>>
         IN  [S |-> [S EXCEPT !.q[status.track] = InsertSortedByKey(@, item, pos)],
              status |-> [status EXCEPT !.in_queue = TRUE],
              alarm |-> None,
              branch |-> "Queued"]

\* The status of referendum `index` as ensure_ongoing reads it, if Ongoing.
EnsureOngoing(infos, index) ==
    IF index \in DOMAIN infos /\ infos[index].kind = "Ongoing"
    THEN Some(infos[index].status)
    ELSE None

\* next_for_deciding that pops one entry only and gives up when its referendum
\* is no longer Ongoing.
next_for_deciding_once(infos, track_queue) ==
    IF track_queue = << >>
    THEN [found |-> FALSE, index |-> 0, queue |-> track_queue]
    ELSE LET index == track_queue[Len(track_queue)][1]
             rest == SubSeq(track_queue, 1, Len(track_queue) - 1)
         IN  IF IsSome(EnsureOngoing(infos, index))
             THEN [found |-> TRUE, index |-> index, queue |-> rest]
             ELSE [found |-> FALSE, index |-> 0, queue |-> rest]

\* next_for_deciding that finds the highest Ongoing entry but leaves the queue
\* as it was.
next_for_deciding_peek(infos, track_queue) ==
    LET live == { k \in 1 .. Len(track_queue) :
                    IsSome(EnsureOngoing(infos, track_queue[k][1])) }
    IN  IF live = {}
        THEN [found |-> FALSE, index |-> 0, queue |-> track_queue]
        ELSE [found |-> TRUE,
              index |-> track_queue[CHOOSE k \in live : \A j \in live : j <= k][1],
              queue |-> track_queue]

\* next_for_deciding(track_queue): pops from the high end until an Ongoing
\* referendum is found.
RECURSIVE next_for_deciding(_, _)
next_for_deciding(infos, track_queue) ==
    IF track_queue = << >>
    THEN [found |-> FALSE, index |-> 0, queue |-> track_queue]
    ELSE LET index == track_queue[Len(track_queue)][1]
             rest == SubSeq(track_queue, 1, Len(track_queue) - 1)
         IN  IF IsSome(EnsureOngoing(infos, index))
             THEN [found |-> TRUE, index |-> index, queue |-> rest]
             ELSE next_for_deciding(infos, rest)

\* A schedule_enactment that asks the scheduler for the desired block as it is.
schedule_enactment_unfloored(S, n, index, track, desired) ==
    [S EXCEPT !.ag = SchedulerSchedule(@, n, Evaluate(desired, n), 63,
                                       EnactmentCall(index)).ag]

\* schedule_enactment(index, track, desired, origin, call)
schedule_enactment(S, n, index, track, desired) ==
    LET earliest_allowed == SatAdd(n, Max(track.min_enactment_period, 1))
        when == Max(Evaluate(desired, n), earliest_allowed)
    IN  [S EXCEPT !.ag = SchedulerSchedule(@, n, when, 63, EnactmentCall(index)).ag]

---------------------------------------------------------------------------
(* service_referendum(now, index, status)                                  *)

\* Result of one service step.
Serviced(S, info, dirty, branch) ==
    [S |-> S, info |-> info, dirty |-> dirty, branch |-> branch]

\* The tail of service_referendum: arm or clear the alarm of a referendum that
\* stays Ongoing.
ServiceAlarm(S, n, index, status, alarm, dirty, branch) ==
    \* a is the outcome of the alarm step, computed once
    CHOOSE r \in { Serviced(a.S, Ongoing(a.status), a.changed \/ dirty, branch) :
                      a \in { IF alarm < BlockMax
                              THEN ensure_alarm_at(S, n, status, index, alarm)
                              ELSE ensure_no_alarm(S, status) } } : TRUE

\* The `in_queue` arm dropping the entry of a referendum left without ayes.
RequeueDropsOut(S, index, status, new_pos) ==
    LET ayes == Ayes(status.tally)
        queue == S.q[status.track]
        maybe_old_pos == Position(queue, index)
    IN  IF IsNone(maybe_old_pos) /\ new_pos > 0
        THEN [S |-> [S EXCEPT !.q[status.track] =
                        ForceInsertKeepRight(queue, new_pos, <<index, ayes>>).q],
              branch |-> "RequeuedInsertion"]
        ELSE IF IsSome(maybe_old_pos) /\ ayes = 0
        THEN [S |-> [S EXCEPT !.q[status.track] =
                        SubSeq(queue, 1, Unwrap(maybe_old_pos))
                        \o SubSeq(queue, Unwrap(maybe_old_pos) + 2, Len(queue))],
              branch |-> "NotQueued"]
        ELSE IF IsSome(maybe_old_pos)
        THEN LET old_pos == Unwrap(maybe_old_pos)
             IN  [S |-> [S EXCEPT !.q[status.track] =
                            Slide([queue EXCEPT ![old_pos + 1] = <<index, ayes>>],
                                  old_pos, new_pos)],
                  branch |-> "RequeuedSlide"]
        ELSE [S |-> S, branch |-> "NotQueued"]

\* The `in_queue` arm sliding the entry without giving it the current ayes.
RequeueStaleAyes(S, index, status, new_pos) ==
    LET ayes == Ayes(status.tally)
        queue == S.q[status.track]
        maybe_old_pos == Position(queue, index)
    IN  IF IsNone(maybe_old_pos) /\ new_pos > 0
        THEN [S |-> [S EXCEPT !.q[status.track] =
                        ForceInsertKeepRight(queue, new_pos, <<index, ayes>>).q],
              branch |-> "RequeuedInsertion"]
        ELSE IF IsSome(maybe_old_pos)
        THEN [S |-> [S EXCEPT !.q[status.track] =
                        Slide(queue, Unwrap(maybe_old_pos), new_pos)],
              branch |-> "RequeuedSlide"]
        ELSE [S |-> S, branch |-> "NotQueued"]

\* The `in_queue` arm without the slide: the entry gets its new ayes where it is.
RequeueInPlace(S, index, status, new_pos) ==
    LET ayes == Ayes(status.tally)
        queue == S.q[status.track]
        maybe_old_pos == Position(queue, index)
    IN  IF IsNone(maybe_old_pos) /\ new_pos > 0
        THEN [S |-> [S EXCEPT !.q[status.track] =
                        ForceInsertKeepRight(queue, new_pos, <<index, ayes>>).q],
              branch |-> "RequeuedInsertion"]
        ELSE IF IsSome(maybe_old_pos)
        THEN [S |-> [S EXCEPT !.q[status.track] =
                        [queue EXCEPT ![Unwrap(maybe_old_pos) + 1] = <<index, ayes>>]],
              branch |-> "RequeuedSlide"]
        ELSE [S |-> S, branch |-> "NotQueued"]

\* The `in_queue` arm: reconcile the queue position with the current ayes.
Requeue(S, index, status, new_pos) ==
    LET ayes == Ayes(status.tally)
        queue == S.q[status.track]
        maybe_old_pos == Position(queue, index)
    IN  IF IsNone(maybe_old_pos) /\ new_pos > 0
        THEN [S |-> [S EXCEPT !.q[status.track] =
                        ForceInsertKeepRight(queue, new_pos, <<index, ayes>>).q],
              branch |-> "RequeuedInsertion"]
        ELSE IF IsSome(maybe_old_pos)
        THEN LET old_pos == Unwrap(maybe_old_pos)
             IN  [S |-> [S EXCEPT !.q[status.track] =
                            Slide([queue EXCEPT ![old_pos + 1] = <<index, ayes>>],
                                  old_pos, new_pos)],
                  branch |-> "RequeuedSlide"]
        ELSE [S |-> S, branch |-> "NotQueued"]

\* The `None` arm of `match &mut status.deciding`, before the timeout check.
ServicePreparing(S, n, index, status, track, pos) ==
    LET timeout == status.submitted + cfg.UndecidingTimeout IN
    IF status.in_queue
    THEN LET r == Requeue(S, index, status, pos)
         IN  [S |-> r.S, status |-> status, alarm |-> BlockMax,
              dirty |-> FALSE, branch |-> r.branch]
    ELSE IF IsSome(status.decision_deposit)
    THEN LET prepare_end == SatAdd(status.submitted, track.prepare_period) IN
         IF n >= prepare_end
         THEN LET r == ready_for_deciding(S, n, track, index, status, pos)
              IN  [S |-> r.S, status |-> r.status,
                   alarm |-> IF IsSome(r.alarm) THEN Min(BlockMax, Unwrap(r.alarm))
                             ELSE BlockMax,
                   dirty |-> TRUE, branch |-> r.branch]
         ELSE [S |-> S, status |-> status, alarm |-> Min(BlockMax, prepare_end),
               dirty |-> FALSE, branch |-> "Preparing"]
    ELSE [S |-> S, status |-> status, alarm |-> timeout,
          dirty |-> FALSE, branch |-> "NoDeposit"]

\* The `None` arm timing a referendum out only after the block of the timeout.
ServiceNotDecidingTimesOutLate(S, n, index, status, track, pos) ==
    LET timeout == status.submitted + cfg.UndecidingTimeout
        Rest(r) ==
            IF IsNone(r.status.deciding) /\ n > timeout /\ ~r.status.in_queue
            THEN LET c == ensure_no_alarm(r.S, r.status)
                 IN  Serviced(deposit_event(c.S, Event("TimedOut", index)),
                              Concluded("TimedOut", n, Some(c.status.submission_deposit),
                                        c.status.decision_deposit),
                              TRUE, "TimedOut")
            ELSE ServiceAlarm(r.S, n, index, r.status, r.alarm, r.dirty, r.branch)
    IN  \* r is the outcome of the first part, computed once
        CHOOSE out \in { Rest(r) : r \in {ServicePreparing(S, n, index, status,
                                                          track, pos)} } : TRUE

\* The `None` arm with its timeout check.
ServiceNotDeciding(S, n, index, status, track, pos) ==
    LET timeout == status.submitted + cfg.UndecidingTimeout
        Rest(r) ==
            IF IsNone(r.status.deciding) /\ n >= timeout /\ ~r.status.in_queue
            THEN LET c == ensure_no_alarm(r.S, r.status)
                 IN  Serviced(deposit_event(c.S, Event("TimedOut", index)),
                              Concluded("TimedOut", n, Some(c.status.submission_deposit),
                                        c.status.decision_deposit),
                              TRUE, "TimedOut")
            ELSE ServiceAlarm(r.S, n, index, r.status, r.alarm, r.dirty, r.branch)
    IN  \* r is the outcome of the first part, computed once
        CHOOSE out \in { Rest(r) : r \in {ServicePreparing(S, n, index, status,
                                                          track, pos)} } : TRUE

\* Conclusion of a deciding referendum (Approved or Rejected): the alarm is
\* cancelled and the track is told that a slot is free.
Conclude(S, n, index, status, kind) ==
    LET c == ensure_no_alarm(S, status)
    IN  [S |-> note_one_fewer_deciding(c.S, n, c.status.track), status |-> c.status]

\* The `Some(deciding)` arm approving a passing referendum as soon as it is
\* confirming, before the confirmation period has run.
ServiceDecidingApprovesEarly(S, n, index, status, track) ==
    LET deciding == Unwrap(status.deciding)
        passing == is_passing(status.tally, SatSub(n, deciding.since),
                              track.decision_period, track.min_support,
                              track.min_approval)
    IN  IF passing
        THEN IF IsSome(deciding.confirming)
             THEN LET c == Conclude(S, n, index, status, "Approved")
                      S1 == schedule_enactment(c.S, n, index, track, status.enactment)
                  IN  Serviced(deposit_event(S1, Event("Confirmed", index)),
                               Concluded("Approved", n, Some(c.status.submission_deposit),
                                         c.status.decision_deposit),
                               TRUE, "Approved")
             ELSE IF IsSome(deciding.confirming)
             THEN ServiceAlarm(S, n, index, status,
                               decision_time(deciding, status.tally, track),
                               FALSE, "ContinueConfirming")
             ELSE LET d == [deciding EXCEPT
                                !.confirming = Some(SatAdd(n, track.confirm_period))]
                      st == [status EXCEPT !.deciding = Some(d)]
                  IN  ServiceAlarm(deposit_event(S, Event("ConfirmStarted", index)),
                                   n, index, st, decision_time(d, st.tally, track),
                                   TRUE, "BeginConfirming")
        ELSE IF n >= SatAdd(deciding.since, track.decision_period)
             THEN LET c == Conclude(S, n, index, status, "Rejected")
                  IN  Serviced(deposit_event(c.S, Event("Rejected", index)),
                               Concluded("Rejected", n, Some(c.status.submission_deposit),
                                         c.status.decision_deposit),
                               TRUE, "Rejected")
             ELSE IF IsSome(deciding.confirming)
             THEN LET d == [deciding EXCEPT !.confirming = None]
                      st == [status EXCEPT !.deciding = Some(d)]
                  IN  ServiceAlarm(deposit_event(S, Event("ConfirmAborted", index)),
                                   n, index, st, decision_time(d, st.tally, track),
                                   TRUE, "EndConfirming")
             ELSE ServiceAlarm(S, n, index, status,
                               decision_time(deciding, status.tally, track),
                               FALSE, "ContinueNotConfirming")

\* The `Some(deciding)` arm rejecting a failing referendum only after the block
\* that ends its decision period.
ServiceDecidingRejectsLate(S, n, index, status, track) ==
    LET deciding == Unwrap(status.deciding)
        passing == is_passing(status.tally, SatSub(n, deciding.since),
                              track.decision_period, track.min_support,
                              track.min_approval)
    IN  IF passing
        THEN IF IsSome(deciding.confirming) /\ n >= Unwrap(deciding.confirming)
             THEN LET c == Conclude(S, n, index, status, "Approved")
                      S1 == schedule_enactment(c.S, n, index, track, status.enactment)
                  IN  Serviced(deposit_event(S1, Event("Confirmed", index)),
                               Concluded("Approved", n, Some(c.status.submission_deposit),
                                         c.status.decision_deposit),
                               TRUE, "Approved")
             ELSE IF IsSome(deciding.confirming)
             THEN ServiceAlarm(S, n, index, status,
                               decision_time(deciding, status.tally, track),
                               FALSE, "ContinueConfirming")
             ELSE LET d == [deciding EXCEPT
                                !.confirming = Some(SatAdd(n, track.confirm_period))]
                      st == [status EXCEPT !.deciding = Some(d)]
                  IN  ServiceAlarm(deposit_event(S, Event("ConfirmStarted", index)),
                                   n, index, st, decision_time(d, st.tally, track),
                                   TRUE, "BeginConfirming")
        ELSE IF n > SatAdd(deciding.since, track.decision_period)
             THEN LET c == Conclude(S, n, index, status, "Rejected")
                  IN  Serviced(deposit_event(c.S, Event("Rejected", index)),
                               Concluded("Rejected", n, Some(c.status.submission_deposit),
                                         c.status.decision_deposit),
                               TRUE, "Rejected")
             ELSE IF IsSome(deciding.confirming)
             THEN LET d == [deciding EXCEPT !.confirming = None]
                      st == [status EXCEPT !.deciding = Some(d)]
                  IN  ServiceAlarm(deposit_event(S, Event("ConfirmAborted", index)),
                                   n, index, st, decision_time(d, st.tally, track),
                                   TRUE, "EndConfirming")
             ELSE ServiceAlarm(S, n, index, status,
                               decision_time(deciding, status.tally, track),
                               FALSE, "ContinueNotConfirming")

\* The `Some(deciding)` arm.
ServiceDeciding(S, n, index, status, track) ==
    LET deciding == Unwrap(status.deciding)
        passing == is_passing(status.tally, SatSub(n, deciding.since),
                              track.decision_period, track.min_support,
                              track.min_approval)
    IN  IF passing
        THEN IF IsSome(deciding.confirming) /\ n >= Unwrap(deciding.confirming)
             THEN LET c == Conclude(S, n, index, status, "Approved")
                      S1 == schedule_enactment(c.S, n, index, track, status.enactment)
                  IN  Serviced(deposit_event(S1, Event("Confirmed", index)),
                               Concluded("Approved", n, Some(c.status.submission_deposit),
                                         c.status.decision_deposit),
                               TRUE, "Approved")
             ELSE IF IsSome(deciding.confirming)
             THEN ServiceAlarm(S, n, index, status,
                               decision_time(deciding, status.tally, track),
                               FALSE, "ContinueConfirming")
             ELSE LET d == [deciding EXCEPT
                                !.confirming = Some(SatAdd(n, track.confirm_period))]
                      st == [status EXCEPT !.deciding = Some(d)]
                  IN  ServiceAlarm(deposit_event(S, Event("ConfirmStarted", index)),
                                   n, index, st, decision_time(d, st.tally, track),
                                   TRUE, "BeginConfirming")
        ELSE IF n >= SatAdd(deciding.since, track.decision_period)
             THEN LET c == Conclude(S, n, index, status, "Rejected")
                  IN  Serviced(deposit_event(c.S, Event("Rejected", index)),
                               Concluded("Rejected", n, Some(c.status.submission_deposit),
                                         c.status.decision_deposit),
                               TRUE, "Rejected")
             ELSE IF IsSome(deciding.confirming)
             THEN LET d == [deciding EXCEPT !.confirming = None]
                      st == [status EXCEPT !.deciding = Some(d)]
                  IN  ServiceAlarm(deposit_event(S, Event("ConfirmAborted", index)),
                                   n, index, st, decision_time(d, st.tally, track),
                                   TRUE, "EndConfirming")
             ELSE ServiceAlarm(S, n, index, status,
                               decision_time(deciding, status.tally, track),
                               FALSE, "ContinueNotConfirming")

\* service_referendum(now, index, status); `pos` is the outcome of the one
\* binary search the step may make on the referendum's track queue.
service_referendum(S, n, index, status, pos) ==
    IF IsNone(TracksInfo(status.track))
    THEN Serviced(S, Ongoing(status), FALSE, "Fail")
    ELSE IF IsNone(status.deciding)
    THEN ServiceNotDeciding(S, n, index, status, Unwrap(TracksInfo(status.track)), pos)
    ELSE ServiceDeciding(S, n, index, status, Unwrap(TracksInfo(status.track)))

\* The positions the binary search of a service step may return.
SearchResults(S, status) == BinarySearchResults(S.q[status.track], Ayes(status.tally))

---------------------------------------------------------------------------
(* Currency (T::Currency: ReservableCurrency) and the deposit helpers      *)

\* Currency::reserve(who, amount) succeeds
CanReserve(S, who, amount) == S.free[who] >= amount

\* take_deposit(who, amount): Ok with the Deposit, or the currency's error
\* with nothing reserved.
take_deposit(S, who, amount) ==
    IF CanReserve(S, who, amount)
    THEN [err |-> "Ok",
          S |-> [S EXCEPT !.free[who] = @ - amount, !.reserved[who] = @ + amount],
          deposit |-> Deposit(who, amount)]
    ELSE [err |-> "InsufficientBalance", S |-> S, deposit |-> Deposit(who, 0)]

\* The reserved balances after Currency::unreserve(who, amount)
Unreserved(res, deposit) ==
    IF IsSome(deposit)
    THEN [res EXCEPT ![Unwrap(deposit).who] = @ - Min(@, Unwrap(deposit).amount)]
    ELSE res

\* refund_deposit(deposit)
refund_deposit(S, deposit) ==
    IF IsSome(deposit)
    THEN LET who == Unwrap(deposit).who
             amount == Min(S.reserved[who], Unwrap(deposit).amount)
         IN  [S EXCEPT !.reserved = Unreserved(@, deposit), !.free[who] = @ + amount]
    ELSE S

\* slash_deposit(deposit)
slash_deposit(S, deposit) ==
    IF IsSome(deposit)
    THEN deposit_event([S EXCEPT !.reserved = Unreserved(@, deposit)],
                       DepositEvent("DepositSlashed", Unwrap(deposit)))
    ELSE S

\* ReferendumInfo::take_decision_deposit: Err for a record that is not
\* finished, else the deposit taken out of the record, if any.
take_decision_deposit(info) ==
    IF info.kind = "Ongoing" THEN [ok |-> FALSE, deposit |-> None, info |-> info]
    ELSE IF info.kind = "Killed" THEN [ok |-> TRUE, deposit |-> None, info |-> info]
    ELSE [ok |-> TRUE, deposit |-> info.decision_deposit,
          info |-> [info EXCEPT !.decision_deposit = None]]

\* ReferendumInfo::take_submission_deposit: Err for Ongoing and Killed, else
\* the deposit taken out of the record, if any.
take_submission_deposit(info) ==
    IF info.kind \in {"Ongoing", "Killed"}
    THEN [ok |-> FALSE, deposit |-> None, info |-> info]
    ELSE [ok |-> TRUE, deposit |-> info.submission_deposit,
          info |-> [info EXCEPT !.submission_deposit = None]]

\* do_clear_metadata(index)
do_clear_metadata(S, index) ==
    IF index \in DOMAIN S.meta
    THEN deposit_event([S EXCEPT !.meta = [i \in DOMAIN @ \ {index} |-> @[i]]],
                       HashEvent("MetadataCleared", index, S.meta[index]))
    ELSE S

---------------------------------------------------------------------------
(* The dispatchables and Polling::access_poll.  Each takes the storage S   *)
(* at the start of the call and the current block n, and returns the       *)
(* DispatchResult with the storage the call has written by its return.     *)

\* ReferendumInfoFor::insert(index, info)
Insert(infos, index, info) ==
    [i \in DOMAIN infos \cup {index} |-> IF i = index THEN info ELSE infos[i]]

\* The status submit builds, before its alarm is set.
NewStatus(n, submission_deposit, track, enactment) ==
    [ track |-> track,
      enactment |-> enactment,
      submitted |-> n,
      submission_deposit |-> submission_deposit,
      decision_deposit |-> None,
      deciding |-> None,
      tally |-> TallyNew,
      in_queue |-> FALSE,
      alarm |-> None ]

\* An allocation that forgets to increment the counter.
NextIndexStuck(count) == [index |-> count, count |-> count]

\* The index submit allocates and the counter it leaves.
NextIndex(count) == [index |-> count, count |-> count + 1]

\* submit(origin, proposal_origin, proposal, enactment_moment); the proposal
\* origin is named by the track it maps to (NoTrack when it maps to none).
submit(S, n, origin, track, enactment) ==
    IF ~SubmitOrigin(origin) THEN Err("BadOrigin", S)
    ELSE IF track \notin TrackIds THEN Err("NoTrack", S)
    ELSE LET d == take_deposit(S, origin.who, cfg.SubmissionDeposit) IN
         IF d.err # "Ok" THEN Err(d.err, S)
         ELSE LET alloc == NextIndex(d.S.count)
                  a == set_alarm([d.S EXCEPT !.count = alloc.count], n,
                                 NudgeCall(alloc.index),
                                 SatAdd(n, cfg.UndecidingTimeout))
                  status == [NewStatus(n, d.deposit, track, enactment)
                                EXCEPT !.alarm = a.alarm]
                  S1 == [a.S EXCEPT !.infos = Insert(@, alloc.index, Ongoing(status))]
              IN  Ok(deposit_event(S1, Event("Submitted", alloc.index)))

\* A place_decision_deposit that reserves the deposit before it looks at the
\* record.
place_decision_deposit_reserve_first(S, n, origin, index, pos) ==
    IF ~ensure_signed(origin) THEN Err("BadOrigin", S)
    ELSE IF IsNone(EnsureOngoing(S.infos, index)) THEN Err("NotOngoing", S)
    ELSE LET status == Unwrap(EnsureOngoing(S.infos, index)) IN
         IF IsNone(TracksInfo(status.track)) THEN Err("NoTrack", S)
         ELSE LET track == Unwrap(TracksInfo(status.track))
                  d == take_deposit(S, origin.who, track.decision_deposit)
              IN  IF d.err # "Ok" THEN Err(d.err, S)
                  ELSE IF IsSome(status.decision_deposit) THEN Err("HasDeposit", d.S)
                  ELSE LET st == [status EXCEPT !.decision_deposit = Some(d.deposit)]
                           r == service_referendum(d.S, n, index, st, pos)
                           S1 == [r.S EXCEPT !.infos = Insert(@, index, r.info)]
                       IN  Ok(deposit_event(S1, IndexDepositEvent("DecisionDepositPlaced",
                                                                  index, d.deposit)))

\* A place_decision_deposit that stores the deposit and does not service the
\* referendum.
place_decision_deposit_unserviced(S, n, origin, index, pos) ==
    IF ~ensure_signed(origin) THEN Err("BadOrigin", S)
    ELSE IF IsNone(EnsureOngoing(S.infos, index)) THEN Err("NotOngoing", S)
    ELSE LET status == Unwrap(EnsureOngoing(S.infos, index)) IN
         IF IsSome(status.decision_deposit) THEN Err("HasDeposit", S)
         ELSE IF IsNone(TracksInfo(status.track)) THEN Err("NoTrack", S)
         ELSE LET track == Unwrap(TracksInfo(status.track))
                  d == take_deposit(S, origin.who, track.decision_deposit)
              IN  IF d.err # "Ok" THEN Err(d.err, S)
                  ELSE LET st == [status EXCEPT !.decision_deposit = Some(d.deposit)]
                           S1 == [d.S EXCEPT !.infos = Insert(@, index, Ongoing(st))]
                       IN  Ok(deposit_event(S1, IndexDepositEvent("DecisionDepositPlaced",
                                                                  index, d.deposit)))

\* place_decision_deposit(origin, index); `pos` is the outcome of the binary
\* search the service step may make.
place_decision_deposit(S, n, origin, index, pos) ==
    IF ~ensure_signed(origin) THEN Err("BadOrigin", S)
    ELSE IF IsNone(EnsureOngoing(S.infos, index)) THEN Err("NotOngoing", S)
    ELSE LET status == Unwrap(EnsureOngoing(S.infos, index)) IN
         IF IsSome(status.decision_deposit) THEN Err("HasDeposit", S)
         ELSE IF IsNone(TracksInfo(status.track)) THEN Err("NoTrack", S)
         ELSE LET track == Unwrap(TracksInfo(status.track))
                  d == take_deposit(S, origin.who, track.decision_deposit)
              IN  IF d.err # "Ok" THEN Err(d.err, S)
                  ELSE LET st == [status EXCEPT !.decision_deposit = Some(d.deposit)]
                           r == service_referendum(d.S, n, index, st, pos)
                           S1 == [r.S EXCEPT !.infos = Insert(@, index, r.info)]
                       IN  Ok(deposit_event(S1, IndexDepositEvent("DecisionDepositPlaced",
                                                                  index, d.deposit)))

\* A refund_decision_deposit that does not write the record back: the deposit
\* stays on it.
refund_decision_deposit_not_stored(S, origin, index) ==
    IF ~ensure_signed_or_root(origin) THEN Err("BadOrigin", S)
    ELSE IF index \notin DOMAIN S.infos THEN Err("BadReferendum", S)
    ELSE LET t == take_decision_deposit(S.infos[index]) IN
         IF ~t.ok THEN Err("Unfinished", S)
         ELSE IF IsNone(t.deposit) THEN Err("NoDeposit", S)
         ELSE Ok(deposit_event(refund_deposit(S, t.deposit),
                               IndexDepositEvent("DecisionDepositRefunded",
                                                 index, Unwrap(t.deposit))))

\* refund_decision_deposit(origin, index)
refund_decision_deposit(S, origin, index) ==
    IF ~ensure_signed_or_root(origin) THEN Err("BadOrigin", S)
    ELSE IF index \notin DOMAIN S.infos THEN Err("BadReferendum", S)
    ELSE LET t == take_decision_deposit(S.infos[index]) IN
         IF ~t.ok THEN Err("Unfinished", S)
         ELSE IF IsNone(t.deposit) THEN Err("NoDeposit", S)
         ELSE LET S1 == [refund_deposit(S, t.deposit)
                            EXCEPT !.infos = Insert(@, index, t.info)]
              IN  Ok(deposit_event(S1, IndexDepositEvent("DecisionDepositRefunded",
                                                         index, Unwrap(t.deposit))))

\* A refund_submission_deposit that reports a record of the wrong status as
\* one without deposit.
refund_submission_deposit_no_status(S, origin, index) ==
    IF ~ensure_signed_or_root(origin) THEN Err("BadOrigin", S)
    ELSE IF index \notin DOMAIN S.infos THEN Err("BadReferendum", S)
    ELSE LET t == take_submission_deposit(S.infos[index]) IN
         IF ~t.ok \/ IsNone(t.deposit) THEN Err("NoDeposit", S)
         ELSE LET S1 == [refund_deposit(S, t.deposit)
                            EXCEPT !.infos = Insert(@, index, t.info)]
              IN  Ok(deposit_event(S1, IndexDepositEvent("SubmissionDepositRefunded",
                                                         index, Unwrap(t.deposit))))

\* refund_submission_deposit(origin, index)
refund_submission_deposit(S, origin, index) ==
    IF ~ensure_signed_or_root(origin) THEN Err("BadOrigin", S)
    ELSE IF index \notin DOMAIN S.infos THEN Err("BadReferendum", S)
    ELSE LET t == take_submission_deposit(S.infos[index]) IN
         IF ~t.ok THEN Err("BadStatus", S)
         ELSE IF IsNone(t.deposit) THEN Err("NoDeposit", S)
         ELSE LET S1 == [refund_deposit(S, t.deposit)
                            EXCEPT !.infos = Insert(@, index, t.info)]
              IN  Ok(deposit_event(S1, IndexDepositEvent("SubmissionDepositRefunded",
                                                         index, Unwrap(t.deposit))))

\* What cancel and kill do first: cancel the alarm and note one fewer deciding
\* on the track.
Withdraw(S, n, status) ==
    LET S1 == IF IsSome(status.alarm)
              THEN [S EXCEPT !.ag = SchedulerCancel(@, Unwrap(status.alarm)[2])]
              ELSE S
    IN  note_one_fewer_deciding(S1, n, status.track)

\* A cancel that does not ask whether the referendum is Ongoing: a finished
\* record is rewritten as Cancelled at the current block.
cancel_finished(S, n, origin, index) ==
    IF ~CancelOrigin(origin) THEN Err("BadOrigin", S)
    ELSE IF index \notin DOMAIN S.infos \/ S.infos[index].kind = "Killed"
    THEN Err("NotOngoing", S)
    ELSE IF S.infos[index].kind # "Ongoing"
    THEN Ok([S EXCEPT !.infos = Insert(@, index, [S.infos[index] EXCEPT
                                                     !.kind = "Cancelled", !.end = n])])
    ELSE LET status == S.infos[index].status
             S1 == deposit_event(Withdraw(S, n, status), Event("Cancelled", index))
             info == Concluded("Cancelled", n, Some(status.submission_deposit),
                               status.decision_deposit)
         IN  Ok([S1 EXCEPT !.infos = Insert(@, index, info)])

\* A cancel that stores the record without the decision deposit.
cancel_drops_decision_deposit(S, n, origin, index) ==
    IF ~CancelOrigin(origin) THEN Err("BadOrigin", S)
    ELSE IF IsNone(EnsureOngoing(S.infos, index)) THEN Err("NotOngoing", S)
    ELSE LET status == Unwrap(EnsureOngoing(S.infos, index))
             S1 == deposit_event(Withdraw(S, n, status), Event("Cancelled", index))
             info == Concluded("Cancelled", n, Some(status.submission_deposit), None)
         IN  Ok([S1 EXCEPT !.infos = Insert(@, index, info)])

\* cancel(origin, index)
cancel(S, n, origin, index) ==
    IF ~CancelOrigin(origin) THEN Err("BadOrigin", S)
    ELSE IF IsNone(EnsureOngoing(S.infos, index)) THEN Err("NotOngoing", S)
    ELSE LET status == Unwrap(EnsureOngoing(S.infos, index))
             S1 == deposit_event(Withdraw(S, n, status), Event("Cancelled", index))
             info == Concluded("Cancelled", n, Some(status.submission_deposit),
                               status.decision_deposit)
         IN  Ok([S1 EXCEPT !.infos = Insert(@, index, info)])

\* A kill that slashes the submission deposit only.
KillSlashSubmissionOnly(S, status) ==
    slash_deposit(S, Some(status.submission_deposit))

\* The slashes of kill: the submission deposit, then the decision deposit.
KillSlash(S, status) ==
    slash_deposit(slash_deposit(S, Some(status.submission_deposit)),
                  status.decision_deposit)

\* A kill that leaves the metadata of the referendum in place.
kill_keeps_metadata(S, n, origin, index) ==
    IF ~KillOrigin(origin) THEN Err("BadOrigin", S)
    ELSE IF IsNone(EnsureOngoing(S.infos, index)) THEN Err("NotOngoing", S)
    ELSE LET status == Unwrap(EnsureOngoing(S.infos, index))
             S1 == deposit_event(Withdraw(S, n, status), Event("Killed", index))
             S2 == KillSlash(S1, status)
         IN  Ok([S2 EXCEPT !.infos = Insert(@, index, Killed(n))])

\* kill(origin, index)
kill(S, n, origin, index) ==
    IF ~KillOrigin(origin) THEN Err("BadOrigin", S)
    ELSE IF IsNone(EnsureOngoing(S.infos, index)) THEN Err("NotOngoing", S)
    ELSE LET status == Unwrap(EnsureOngoing(S.infos, index))
             S1 == deposit_event(Withdraw(S, n, status), Event("Killed", index))
             S2 == do_clear_metadata(KillSlash(S1, status), index)
         IN  Ok([S2 EXCEPT !.infos = Insert(@, index, Killed(n))])

\* nudge_referendum(origin, index); `pos` is the outcome of the binary search
\* the service step may make.
nudge_referendum(S, n, origin, index, pos) ==
    IF ~ensure_root(origin) THEN Err("BadOrigin", S)
    ELSE IF IsNone(EnsureOngoing(S.infos, index)) THEN Err("NotOngoing", S)
    ELSE LET status == [Unwrap(EnsureOngoing(S.infos, index)) EXCEPT !.alarm = None]
             r == service_referendum(S, n, index, status, pos)
         IN  Ok(IF r.dirty THEN [r.S EXCEPT !.infos = Insert(@, index, r.info)]
                ELSE r.S)

\* A decrement that does not stop at zero.
UncheckedDec(x) == x - 1

\* DecidingCount::mutate(track, |x| x.saturating_dec())
SaturatingDec(x) == IF x > 0 THEN x - 1 ELSE 0

\* one_fewer_deciding(origin, track)
one_fewer_deciding(S, n, origin, track) ==
    IF ~ensure_root(origin) THEN Err("BadOrigin", S)
    ELSE IF IsNone(TracksInfo(track)) THEN Err("BadTrack", S)
    ELSE LET track_info == Unwrap(TracksInfo(track))
             next == next_for_deciding(S.infos, S.q[track])
         IN  IF next.found
             THEN LET status == S.infos[next.index].status
                      b == begin_deciding(S, n, status, next.index, track_info)
                      a == ensure_alarm_at(b.S, n, b.status, next.index, Unwrap(b.alarm))
                  IN  Ok([a.S EXCEPT !.infos = Insert(@, next.index, Ongoing(a.status)),
                                     !.q[track] = next.queue])
             ELSE Ok([S EXCEPT !.dc[track] = SaturatingDec(@)])

\* A set_metadata that lets any signer clear the metadata of an Ongoing
\* referendum.
set_metadata_any_signer(S, origin, index, maybe_hash) ==
    IF ~ensure_signed(origin) THEN Err("BadOrigin", S)
    ELSE IF IsSome(maybe_hash)
    THEN IF IsNone(EnsureOngoing(S.infos, index)) THEN Err("NotOngoing", S)
         ELSE IF Unwrap(EnsureOngoing(S.infos, index)).submission_deposit.who # origin.who
         THEN Err("NoPermission", S)
         ELSE IF Unwrap(maybe_hash) \notin cfg.hashes THEN Err("PreimageNotExist", S)
         ELSE Ok(deposit_event([S EXCEPT !.meta = Insert(@, index, Unwrap(maybe_hash))],
                               HashEvent("MetadataSet", index, Unwrap(maybe_hash))))
    ELSE Ok(do_clear_metadata(S, index))

\* A set_metadata that writes the hash without looking at the referendum.
set_metadata_unchecked(S, origin, index, maybe_hash) ==
    IF ~ensure_signed(origin) THEN Err("BadOrigin", S)
    ELSE IF IsSome(maybe_hash)
    THEN IF Unwrap(maybe_hash) \notin cfg.hashes THEN Err("PreimageNotExist", S)
         ELSE Ok(deposit_event([S EXCEPT !.meta = Insert(@, index, Unwrap(maybe_hash))],
                               HashEvent("MetadataSet", index, Unwrap(maybe_hash))))
    ELSE IF /\ IsSome(EnsureOngoing(S.infos, index))
            /\ Unwrap(EnsureOngoing(S.infos, index)).submission_deposit.who # origin.who
         THEN Err("NoPermission", S)
         ELSE Ok(do_clear_metadata(S, index))

\* set_metadata(origin, index, maybe_hash); the hashes of cfg.hashes are those
\* with a stored preimage.
set_metadata(S, origin, index, maybe_hash) ==
    IF ~ensure_signed(origin) THEN Err("BadOrigin", S)
    ELSE IF IsSome(maybe_hash)
    THEN IF IsNone(EnsureOngoing(S.infos, index)) THEN Err("NotOngoing", S)
         ELSE IF Unwrap(EnsureOngoing(S.infos, index)).submission_deposit.who # origin.who
         THEN Err("NoPermission", S)
         ELSE IF Unwrap(maybe_hash) \notin cfg.hashes THEN Err("PreimageNotExist", S)
         ELSE Ok(deposit_event([S EXCEPT !.meta = Insert(@, index, Unwrap(maybe_hash))],
                               HashEvent("MetadataSet", index, Unwrap(maybe_hash))))
    ELSE IF /\ IsSome(EnsureOngoing(S.infos, index))
            /\ Unwrap(EnsureOngoing(S.infos, index)).submission_deposit.who # origin.who
         THEN Err("NoPermission", S)
         ELSE Ok(do_clear_metadata(S, index))

\* PollStatus::Ongoing(&mut tally, track)
PollOngoing(tally, track) == [kind |-> "Ongoing", tally |-> tally, track |-> track]

\* PollStatus::Completed(end, approved)
PollCompleted(end, approved) == [kind |-> "Completed", end |-> end, approved |-> approved]

\* PollStatus::None
PollNone == [kind |-> "None"]

\* What access_poll returns: the storage it leaves and the PollStatus it
\* passed to f.
Polled(S, passed) == [err |-> "Ok", S |-> S, passed |-> passed]

\* An access_poll that stores the tally and does not set the alarm.
access_poll_no_alarm(S, n, index, tally) ==
    IF index \notin DOMAIN S.infos THEN Polled(S, PollNone)
    ELSE LET info == S.infos[index] IN
         IF info.kind = "Ongoing"
         THEN Polled([S EXCEPT !.infos = Insert(@, index,
                                  Ongoing([info.status EXCEPT !.tally = tally]))],
                     PollOngoing(info.status.tally, info.status.track))
         ELSE IF info.kind = "Approved" THEN Polled(S, PollCompleted(info.end, TRUE))
         ELSE IF info.kind = "Rejected" THEN Polled(S, PollCompleted(info.end, FALSE))
         ELSE Polled(S, PollNone)

\* Polling::access_poll(index, f), f leaving `tally` on an Ongoing referendum.
access_poll(S, n, index, tally) ==
    IF index \notin DOMAIN S.infos THEN Polled(S, PollNone)
    ELSE LET info == S.infos[index] IN
         IF info.kind = "Ongoing"
         THEN LET status == [info.status EXCEPT !.tally = tally]
                  a == ensure_alarm_at(S, n, status, index, n + 1)
              IN  Polled([a.S EXCEPT !.infos = Insert(@, index, Ongoing(a.status))],
                         PollOngoing(info.status.tally, info.status.track))
         ELSE IF info.kind = "Approved" THEN Polled(S, PollCompleted(info.end, TRUE))
         ELSE IF info.kind = "Rejected" THEN Polled(S, PollCompleted(info.end, FALSE))
         ELSE Polled(S, PollNone)

---------------------------------------------------------------------------
(* Actions *)

\* The scheduler has dispatched everything due in this block: extrinsics run.
Idle == Due(Agenda, now) = {}

\* The storage at the start of a call.
CurrentStorage ==
    [ count |-> ReferendumCount,
      infos |-> ReferendumInfoFor,
      q |-> TrackQueue,
      dc |-> DecidingCount,
      meta |-> MetadataOf,
      ag |-> Agenda,
      free |-> free,
      reserved |-> reserved,
      ev |-> << >> ]

\* Write back what a call left in storage.
Commit(S) ==
    /\ ReferendumCount' = S.count
    /\ ReferendumInfoFor' = S.infos
    /\ TrackQueue' = S.q
    /\ DecidingCount' = S.dc
    /\ MetadataOf' = S.meta
    /\ Agenda' = S.ag
    /\ free' = S.free
    /\ reserved' = S.reserved
    /\ UNCHANGED <<cfg, now>>

\* An extrinsic that returns Ok is a step; one that returns an error is none.
Extrinsic(result) ==
    /\ Idle
    /\ \E r \in {result} :
          /\ r.err = "Ok"
          /\ Commit(r.S)

\* The positions the binary search may return when referendum `index` is
\* serviced (position 0 stands in when it is not Ongoing and no search is made).
SearchPositions(S, index) ==
    IF IsSome(EnsureOngoing(S.infos, index))
    THEN SearchResults(S, Unwrap(EnsureOngoing(S.infos, index)))
    ELSE {0}

Submit(who, track, enactment) ==
    /\ ReferendumCount < cfg.maxReferenda
    /\ Extrinsic(submit(CurrentStorage, now, Signed(who), track, enactment))

PlaceDecisionDeposit(who, index) ==
    \E pos \in SearchPositions(CurrentStorage, index) :
        Extrinsic(place_decision_deposit(CurrentStorage, now, Signed(who), index, pos))

RefundDecisionDeposit(index) ==
    Extrinsic(refund_decision_deposit(CurrentStorage, Root, index))

RefundSubmissionDeposit(index) ==
    Extrinsic(refund_submission_deposit(CurrentStorage, Root, index))

Cancel(index) == Extrinsic(cancel(CurrentStorage, now, Root, index))

Kill(index) == Extrinsic(kill(CurrentStorage, now, Root, index))

SetMetadata(who, index, maybe_hash) ==
    Extrinsic(set_metadata(CurrentStorage, Signed(who), index, maybe_hash))

\* The voting pallet accesses the poll of an Ongoing referendum.
AccessPoll(index, tally) ==
    /\ IsOngoing(index)
    /\ Extrinsic(access_poll(CurrentStorage, now, index, tally))

\* The storage a scheduled call starts on: the scheduler has taken `task` off
\* its agenda.
Dispatched(task) == [CurrentStorage EXCEPT !.ag = Agenda \ {task}]

\* The scheduler dispatches the next nudge_referendum that is due.
DispatchNudge ==
    /\ ~Idle
    /\ LET task == NextTask(Agenda, now)
       IN  /\ task.call.name = "nudge_referendum"
           /\ \E pos \in SearchPositions(Dispatched(task), task.call.arg) :
                \E r \in {nudge_referendum(Dispatched(task), now, Root,
                                            task.call.arg, pos)} :
                    Commit(r.S)

\* The scheduler dispatches the next one_fewer_deciding that is due.
DispatchOneFewerDeciding ==
    /\ ~Idle
    /\ LET task == NextTask(Agenda, now)
       IN  /\ task.call.name = "one_fewer_deciding"
           /\ \E r \in {one_fewer_deciding(Dispatched(task), now, Root,
                                              task.call.arg)} :
                 Commit(r.S)

\* The scheduler dispatches the proposal of an approved referendum; what the
\* proposal does is outside the pallet.
DispatchEnactment ==
    /\ ~Idle
    /\ LET task == NextTask(Agenda, now)
       IN  /\ task.call.name = "enactment"
           /\ \E S \in {Dispatched(task)} : Commit(S)

\* The block ends and the next one begins.
NextBlock ==
    /\ Idle
    /\ now < cfg.maxBlock
    /\ now' = now + 1
    /\ UNCHANGED <<cfg, ReferendumCount, ReferendumInfoFor, TrackQueue, DecidingCount,
                   MetadataOf, Agenda, free, reserved>>

---------------------------------------------------------------------------
(* Specification *)

\* The state at genesis under configuration c.
Genesis(c) ==
    /\ cfg = c
    /\ now = 0
    /\ ReferendumCount = 0
    /\ ReferendumInfoFor = << >>
    /\ TrackQueue = [t \in DOMAIN c.tracks |-> << >>]
    /\ DecidingCount = [t \in DOMAIN c.tracks |-> 0]
    /\ MetadataOf = << >>
    /\ Agenda = {}
    /\ free = [a \in Accounts |-> InitialBalance]
    /\ reserved = [a \in Accounts |-> 0]

Init == Genesis(BaseConfig)

Indices == 0 .. (cfg.maxReferenda - 1)

Next ==
    \/ \E who \in cfg.submitters, track \in TrackIds, e \in cfg.enactments :
          Submit(who, track, e)
    \/ \E who \in cfg.depositors, index \in Indices : PlaceDecisionDeposit(who, index)
    \/ \E index \in cfg.refundable : RefundDecisionDeposit(index)
    \/ \E index \in cfg.refundable : RefundSubmissionDeposit(index)
    \/ \E index \in cfg.cancellable : Cancel(index)
    \/ \E index \in cfg.killable : Kill(index)
    \/ \E who \in Accounts, index \in cfg.annotatable,
          h \in {None} \cup {Some(x) : x \in cfg.hashes} :
          SetMetadata(who, index, h)
    \/ \E index \in cfg.pollable, tally \in cfg.tallies : AccessPoll(index, tally)
    \/ DispatchNudge
    \/ DispatchOneFewerDeciding
    \/ DispatchEnactment
    \/ NextBlock

Spec == Init /\ [][Next]_vars

InitFullQueue == Genesis(FullQueueConfig)

SpecFullQueue == InitFullQueue /\ [][Next]_vars

\* The pallet under FullQueueConfig with every alarm firing at its block: every
\* block ends (weak fairness of NextBlock), and the scheduler dispatches every
\* task that is due before anything else happens in the block.  A state with a
\* task due allows no step but its dispatch, which leaves no new task due in
\* the same block, so weak fairness of the three dispatch actions is the same
\* as the agenda being cleared of due tasks again and again ([]<>Idle).
\* Nothing is assumed of the calls made from outside.
SpecFullQueueFair ==
    /\ InitFullQueue
    /\ [][Next]_vars
    /\ WF_vars(NextBlock)
    /\ []<>Idle

InitQueue == Genesis(QueueConfig)

SpecQueue == InitQueue /\ [][Next]_vars

\* A track without confirmation period (confirm_period = 0).
ZeroConfirmConfig ==
    [ BaseConfig EXCEPT !.tracks = (0 :> TrackInfo(1, 2, 1, 2, 0, 1)) ]

InitZeroConfirm == Genesis(ZeroConfirmConfig)

SpecZeroConfirm == InitZeroConfirm /\ [][Next]_vars

\* Alarms every second block (AlarmInterval = 2), and one metadata hash with a
\* stored preimage, which the submitter of referendum 0 may set.
IntervalConfig ==
    [ BaseConfig EXCEPT
        !.AlarmInterval = 2,
        !.hashes = {1},
        !.depositors = {2},
        !.killable = {0},
        !.pollable = {0},
        !.annotatable = {0} ]

InitInterval == Genesis(IntervalConfig)

SpecInterval == InitInterval /\ [][Next]_vars

\* A track whose confirmation period (2 blocks) is longer than the time to the
\* next alarm, with no preparation period.
LongConfirmConfig ==
    [ BaseConfig EXCEPT
        !.tracks = (0 :> TrackInfo(1, 2, 0, 2, 2, 1)),
        !.depositors = {2},
        !.refundable = {0},
        !.cancellable = {1},
        !.killable = {0},
        !.annotatable = {0} ]

InitLongConfirm == Genesis(LongConfirmConfig)

SpecLongConfirm == InitLongConfirm /\ [][Next]_vars

\* Alarms every second block and an undeciding timeout of one block, so that
\* the deadline of a referendum falls between two alarm blocks.
ShortTimeoutConfig == [ IntervalConfig EXCEPT !.UndecidingTimeout = 1 ]

InitShortTimeout == Genesis(ShortTimeoutConfig)

SpecShortTimeout == InitShortTimeout /\ [][Next]_vars

\* A track without minimum enactment period and without preparation, and
\* proposals to be enacted at block 0, at once, or two blocks after approval.
EnactmentConfig ==
    [ BaseConfig EXCEPT
        !.tracks = (0 :> TrackInfo(1, 2, 0, 2, 1, 0)),
        !.enactments = {EnactAt(0), EnactAfter(0), EnactAfter(2)},
        !.depositors = {2},
        !.refundable = {0},
        !.cancellable = {1},
        !.killable = {0},
        !.pollable = {0},
        !.annotatable = {0} ]

InitEnactment == Genesis(EnactmentConfig)

SpecEnactment == InitEnactment /\ [][Next]_vars

\* Four referenda with equal or differing ayes contending for one deciding
\* slot and a queue of two.
TieConfig ==
    [ FullQueueConfig EXCEPT
        !.MaxQueued = 2,
        !.maxReferenda = MaxReferendaMany + 1,
        !.pollable = {3} ]

InitTie == Genesis(TieConfig)

SpecTie == InitTie /\ [][Next]_vars

\* Four referenda, three of them in the queue of a track with one deciding
\* slot, their ayes changing while they wait.
RequeueConfig ==
    [ FullQueueConfig EXCEPT
        !.MaxQueued = 3,
        !.maxReferenda = MaxReferendaMany + 1,
        !.cancellable = {0},
        !.pollable = {1} ]

InitRequeue == Genesis(RequeueConfig)

SpecRequeue == InitRequeue /\ [][Next]_vars

---------------------------------------------------------------------------
(* Properties *)

Referenda == DOMAIN ReferendumInfoFor

OngoingOn(track) ==
    { i \in Referenda :
        /\ ReferendumInfoFor[i].kind = "Ongoing"
        /\ ReferendumInfoFor[i].status.track = track }

StatusOf(i) == ReferendumInfoFor[i].status

DecidingOn(track) == { i \in OngoingOn(track) : IsSome(StatusOf(i).deciding) }

QueuedIndices(track) == { TrackQueue[track][k][1] : k \in 1 .. Len(TrackQueue[track]) }

\* C1: on every track, the number of Ongoing referenda whose `deciding` is Some
\* is at most the track's max_deciding.
C1_DecidingWithinCapacity ==
    \A t \in TrackIds : Cardinality(DecidingOn(t)) <= cfg.tracks[t].max_deciding

\* C2: on every track, the stored DecidingCount is at most max_deciding.
C2_DecidingCountWithinCapacity ==
    \A t \in TrackIds : DecidingCount[t] <= cfg.tracks[t].max_deciding

\* C2 witness: the track is at capacity and a referendum that was ready to be
\* decided was put into the queue instead of being counted.
C2_Witness ==
    \E t \in TrackIds :
        /\ DecidingCount[t] = cfg.tracks[t].max_deciding
        /\ \E i \in OngoingOn(t) : StatusOf(i).in_queue /\ i \in QueuedIndices(t)

\* The amount of a deposit held for account a.
Held(deposit, a) ==
    IF IsSome(deposit) /\ Unwrap(deposit).who = a THEN Unwrap(deposit).amount ELSE 0

\* The deposits a record holds for account a.
HeldBy(info, a) ==
    IF info.kind = "Ongoing"
    THEN Held(Some(info.status.submission_deposit), a) + Held(info.status.decision_deposit, a)
    ELSE IF info.kind = "Killed" THEN 0
    ELSE Held(info.submission_deposit, a) + Held(info.decision_deposit, a)

RECURSIVE SumHeld(_, _)
SumHeld(indices, a) ==
    IF indices = {} THEN 0
    ELSE LET i == CHOOSE x \in indices : TRUE
         IN  HeldBy(ReferendumInfoFor[i], a) + SumHeld(indices \ {i}, a)

\* C3: for every account, the balance the pallet has reserved equals the sum of
\* the deposits stored for it in the records (Ongoing ones and those retained
\* on Approved, Rejected, Cancelled and TimedOut records).
C3_ReservedMatchesStoredDeposits ==
    \A a \in Accounts : reserved[a] = SumHeld(Referenda, a)

\* C3 witness: a referendum with a decision deposit was killed (both deposits
\* slashed) and a retained deposit of another one was refunded.
C3_Witness ==
    /\ \E i \in Referenda : ReferendumInfoFor[i].kind = "Killed"
    /\ \E a \in Accounts : free[a] + reserved[a] + 2 <= InitialBalance
    /\ \E i \in Referenda :
          /\ ReferendumInfoFor[i].kind \in {"Cancelled", "TimedOut", "Approved", "Rejected"}
          /\ IsNone(ReferendumInfoFor[i].submission_deposit)

NudgesOf(i) == { e \in Agenda : e.call = NudgeCall(i) }

EntriesAt(address) == { e \in Agenda : <<e.when, e.index>> = address }

\* C4: every Ongoing record has at most one pending nudge_referendum entry in
\* the scheduler, and a stored alarm Some((w, a)) names exactly one pending
\* entry: the one at address a, due at block w.
C4_StoredAlarmIsLive ==
    \A i \in Referenda :
        ReferendumInfoFor[i].kind = "Ongoing" =>
            /\ Cardinality(NudgesOf(i)) <= 1
            /\ IsSome(StatusOf(i).alarm) =>
                 LET w == Unwrap(StatusOf(i).alarm)[1]
                     a == Unwrap(StatusOf(i).alarm)[2]
                 IN  /\ Cardinality(EntriesAt(a)) = 1
                     /\ \A e \in EntriesAt(a) : e.when = w /\ e.call = NudgeCall(i)

\* C5: on every track, if DecidingCount is below max_deciding then the track's
\* queue holds no entry of an Ongoing referendum.
C5_QueueEmptyBelowCapacity ==
    \A t \in TrackIds :
        DecidingCount[t] < cfg.tracks[t].max_deciding =>
            \A i \in QueuedIndices(t) :
                ~(i \in Referenda /\ ReferendumInfoFor[i].kind = "Ongoing")

\* C6: for every Ongoing record with deciding = Some(d), d.since is strictly
\* less than d.confirming when confirming is Some.
C6_SinceBeforeConfirming ==
    \A i \in Referenda :
        (ReferendumInfoFor[i].kind = "Ongoing" /\ IsSome(StatusOf(i).deciding)) =>
            LET d == Unwrap(StatusOf(i).deciding)
            IN  IsSome(d.confirming) => d.since < Unwrap(d.confirming)

\* C7: for every Ongoing record with a stored alarm Some((w, _)), w is a
\* multiple of AlarmInterval and w is not before the current block.
C7_AlarmQuantizedAndNotPast ==
    \A i \in Referenda :
        (ReferendumInfoFor[i].kind = "Ongoing" /\ IsSome(StatusOf(i).alarm)) =>
            LET w == Unwrap(StatusOf(i).alarm)[1]
            IN  w % cfg.AlarmInterval = 0 /\ w >= now

\* C8: every track queue is sorted ascending by its stored ayes.
C8_QueueSortedByAyes ==
    \A t \in TrackIds :
        \A k \in 1 .. (Len(TrackQueue[t]) - 1) :
            TrackQueue[t][k][2] <= TrackQueue[t][k + 1][2]

\* C8 witness: two referenda are queued, the one submitted later below the one
\* submitted earlier, with strictly fewer ayes.
C8_Witness ==
    \E t \in TrackIds :
        /\ Len(TrackQueue[t]) = 2
        /\ TrackQueue[t][1][1] > TrackQueue[t][2][1]
        /\ TrackQueue[t][1][2] < TrackQueue[t][2][2]
        /\ \A k \in 1 .. 2 :
              /\ TrackQueue[t][k][1] \in OngoingOn(t)
              /\ Ayes(StatusOf(TrackQueue[t][k][1]).tally) = TrackQueue[t][k][2]

\* C9: every index in a track queue is a key of ReferendumInfoFor; if its
\* record is Ongoing it has in_queue = true, deciding = None and that track;
\* and no index appears twice in a queue.
C9_QueueEntriesConsistent ==
    \A t \in TrackIds :
        /\ \A k \in 1 .. Len(TrackQueue[t]) :
              LET i == TrackQueue[t][k][1]
              IN  /\ i \in Referenda
                  /\ ReferendumInfoFor[i].kind = "Ongoing" =>
                        /\ StatusOf(i).in_queue
                        /\ IsNone(StatusOf(i).deciding)
                        /\ StatusOf(i).track = t
        /\ Cardinality(QueuedIndices(t)) = Len(TrackQueue[t])

\* C9 witness: a queue holds the entry of a concluded referendum next to the
\* entry of an Ongoing one.
C9_Witness ==
    \E t \in TrackIds :
        /\ \E i \in QueuedIndices(t) : ReferendumInfoFor[i].kind # "Ongoing"
        /\ \E i \in QueuedIndices(t) : ReferendumInfoFor[i].kind = "Ongoing"

\* C10: the keys of ReferendumInfoFor are exactly 0 .. ReferendumCount - 1 (so
\* ReferendumCount is their number); a step either leaves the counter and the
\* keys alone or adds the old counter as the one new key and increments the
\* counter by one.
C10_CountMatchesKeys ==
    /\ [](Referenda = 0 .. (ReferendumCount - 1))
    /\ [][\/ /\ ReferendumCount' = ReferendumCount
             /\ DOMAIN ReferendumInfoFor' = DOMAIN ReferendumInfoFor
          \/ /\ ReferendumCount' = ReferendumCount + 1
             /\ DOMAIN ReferendumInfoFor' = DOMAIN ReferendumInfoFor \cup {ReferendumCount}]_vars

\* C10 witness: two referenda have been submitted and one of them has concluded.
C10_Witness ==
    /\ ReferendumCount = 2
    /\ Cardinality(Referenda) = 2
    /\ \E i \in Referenda : ReferendumInfoFor[i].kind # "Ongoing"

---------------------------------------------------------------------------
(* Properties of the operations *)

Terminal(info) == info.kind # "Ongoing"

\* A deposit slot of a terminal record keeps its deposit or loses it.
KeptOrTaken(before, after) == after = before \/ after = None

\* C11: a record in a terminal variant (Approved, Rejected, Cancelled, TimedOut,
\* Killed) stays, in every step, in that variant with the same end block; the
\* only change is a retained deposit being taken out of it.
C11_TerminalRecordsStay ==
    [][\A i \in Referenda :
          Terminal(ReferendumInfoFor[i]) =>
              /\ i \in DOMAIN ReferendumInfoFor'
              /\ ReferendumInfoFor'[i].kind = ReferendumInfoFor[i].kind
              /\ ReferendumInfoFor'[i].end = ReferendumInfoFor[i].end
              /\ ReferendumInfoFor[i].kind = "Killed" =>
                    ReferendumInfoFor'[i] = ReferendumInfoFor[i]
              /\ ReferendumInfoFor[i].kind # "Killed" =>
                    /\ KeptOrTaken(ReferendumInfoFor[i].submission_deposit,
                                   ReferendumInfoFor'[i].submission_deposit)
                    /\ KeptOrTaken(ReferendumInfoFor[i].decision_deposit,
                                   ReferendumInfoFor'[i].decision_deposit)]_vars

\* C11 witness: a referendum was approved, its enactment has been dispatched and
\* its submission deposit has been refunded, while another record is Ongoing.
C11_Witness ==
    /\ \E i \in Referenda :
          /\ ReferendumInfoFor[i].kind = "Approved"
          /\ ReferendumInfoFor[i].end < now
          /\ IsNone(ReferendumInfoFor[i].submission_deposit)
    /\ \E i \in Referenda : ReferendumInfoFor[i].kind = "Ongoing"

\* The one_fewer_deciding calls in the agenda of S that were not pending before.
NewOneFewer(S) == { e \in S.ag \ Agenda : e.call.name = "one_fewer_deciding" }

\* The referenda that are deciding in storage S.
DecidingIn(S) ==
    { i \in DOMAIN S.infos :
        S.infos[i].kind = "Ongoing" /\ IsSome(S.infos[i].status.deciding) }

\* The result leaves DecidingCount as it is now, and so does every
\* one_fewer_deciding it has scheduled, which starts no referendum deciding.
KeepsDecidingCount(r) ==
    /\ r.S.dc = DecidingCount
    /\ \A e \in NewOneFewer(r.S) :
          LET f == one_fewer_deciding([r.S EXCEPT !.ag = @ \ {e}], e.when, Root, e.call.arg)
          IN  /\ f.S.dc = DecidingCount
              /\ DecidingIn(f.S) = DecidingIn(r.S)

\* C12: cancel or kill of an Ongoing referendum that is not deciding leaves
\* DecidingCount of its track unchanged, in the call and through the alarm the
\* call schedules, and starts no queued referendum deciding.
C12_WithdrawNonDecidingKeepsCount ==
    \A i \in Referenda :
        (ReferendumInfoFor[i].kind = "Ongoing" /\ IsNone(StatusOf(i).deciding)) =>
            /\ KeepsDecidingCount(cancel(CurrentStorage, now, Root, i))
            /\ KeepsDecidingCount(kill(CurrentStorage, now, Root, i))

\* The inputs a call may be given, valid or not.
Origins == { Signed(a) : a \in Accounts } \cup {Root, NoOrigin}

AnyIndex == 0 .. cfg.maxReferenda

AnyTrack == TrackIds \cup {Cardinality(TrackIds)}

AnyHash == {None} \cup { Some(h) : h \in cfg.hashes \cup {0} }

\* A result that is an error carries the storage of the start of the call, with
\* no event deposited.
ErrorLeavesStorage(r) == r.err # "Ok" => r.S = CurrentStorage

RoundedUp(when) ==
    CHOOSE b \in when .. (when + Max(cfg.AlarmInterval, 1)) :
        /\ b % Max(cfg.AlarmInterval, 1) = 0
        /\ \A c \in when .. (b - 1) : c % Max(cfg.AlarmInterval, 1) # 0

\* The agenda holds `call` at block `when` under the address of `alarm`.
AlarmSetAt(ag, alarm, when, call) ==
    /\ IsSome(alarm)
    /\ Unwrap(alarm)[1] = when
    /\ \E task \in ag :
          /\ task.call = call
          /\ task.when = when
          /\ <<task.when, task.index>> = Unwrap(alarm)[2]

\* What a submit by `who` that returns Ok has done to storage S.
SubmitCreates(S, who, track, enactment) ==
    LET r == submit(S, now, Signed(who), track, enactment)
        index == S.count
        when == RoundedUp(now + cfg.UndecidingTimeout)
    IN  r.err = "Ok" =>
          /\ index \notin DOMAIN S.infos
          /\ DOMAIN r.S.infos = DOMAIN S.infos \cup {index}
          /\ \A i \in DOMAIN S.infos : r.S.infos[i] = S.infos[i]
          /\ r.S.infos[index].kind = "Ongoing"
          /\ LET status == r.S.infos[index].status
             IN  /\ status.track = track
                 /\ status.enactment = enactment
                 /\ status.submitted = now
                 /\ status.decision_deposit = None
                 /\ status.deciding = None
                 /\ status.in_queue = FALSE
                 /\ status.tally = TallyNew
                 /\ status.submission_deposit =
                        [who |-> who, amount |-> cfg.SubmissionDeposit]
                 /\ AlarmSetAt(r.S.ag, status.alarm, when, NudgeCall(index))
          /\ S.ag \subseteq r.S.ag
          /\ Cardinality(r.S.ag \ S.ag) = 1
          /\ r.S.reserved = [S.reserved EXCEPT ![who] = @ + cfg.SubmissionDeposit]
          /\ r.S.free = [S.free EXCEPT ![who] = @ - cfg.SubmissionDeposit]
          /\ r.S.count = S.count + 1
          /\ r.S.q = S.q
          /\ r.S.dc = S.dc
          /\ r.S.meta = S.meta

\* C14: in every reachable state, a submit that succeeds adds exactly one
\* record, at the next index: Ongoing, submitted now, without decision deposit
\* or deciding status, not queued, with a fresh tally, with the submission
\* deposit {who, SubmissionDeposit} reserved from who, and with its alarm at
\* now + UndecidingTimeout rounded up to a multiple of AlarmInterval; no other
\* record, no queue, no DecidingCount and no metadata changes.
C14_SubmitCreatesOneOngoing ==
    \A who \in Accounts, track \in TrackIds, enactment \in cfg.enactments :
        SubmitCreates(CurrentStorage, who, track, enactment)

\* A referendum just submitted, whose alarm had to be rounded up.
C14_Witness ==
    \E i \in DOMAIN ReferendumInfoFor :
        /\ ReferendumInfoFor[i].kind = "Ongoing"
        /\ ReferendumInfoFor[i].status.submitted = now
        /\ ReferendumInfoFor[i].status.decision_deposit = None
        /\ ReferendumInfoFor[i].status.tally = TallyNew
        /\ (now + cfg.UndecidingTimeout) % Max(cfg.AlarmInterval, 1) # 0
        /\ AlarmSetAt(Agenda, ReferendumInfoFor[i].status.alarm,
                      RoundedUp(now + cfg.UndecidingTimeout), NudgeCall(i))

\* What a place_decision_deposit by `who` that returns Ok has done to storage
\* S; the alarm of a referendum still preparing is expected at the end of its
\* preparation, rounded up to a multiple of AlarmInterval if `rounded`.
DepositPlaced(S, who, index, pos, rounded) ==
    LET r == place_decision_deposit(S, now, Signed(who), index, pos) IN
    r.err = "Ok" =>
      LET before == S.infos[index].status
          track == cfg.tracks[before.track]
          deposit == [who |-> who, amount |-> track.decision_deposit]
          prepare_end == before.submitted + track.prepare_period
          timeout == before.submitted + cfg.UndecidingTimeout
          after == r.S.infos[index]
      IN  /\ r.S.reserved = [S.reserved EXCEPT ![who] = @ + track.decision_deposit]
          /\ r.S.free = [S.free EXCEPT ![who] = @ - track.decision_deposit]
          /\ IF after.kind = "Ongoing"
             THEN after.status.decision_deposit = Some(deposit)
             ELSE after.decision_deposit = Some(deposit)
          /\ (now < prepare_end /\ now < timeout) =>
                /\ after.kind = "Ongoing"
                /\ after.status.deciding = None
                /\ after.status.in_queue = FALSE
                /\ AlarmSetAt(r.S.ag, after.status.alarm,
                              IF rounded THEN RoundedUp(prepare_end) ELSE prepare_end,
                              NudgeCall(index))
          /\ now >= prepare_end =>
                /\ after.kind = "Ongoing"
                /\ IsSome(after.status.deciding) \/ after.status.in_queue

Refunded(S, index, info, deposit) ==
    [S EXCEPT !.infos = [@ EXCEPT ![index] = info],
              !.reserved = [@ EXCEPT ![deposit.who] = @ - deposit.amount],
              !.free = [@ EXCEPT ![deposit.who] = @ + deposit.amount]]

\* The outcome of refund_decision_deposit(index) on storage S.
DecisionDepositRefund(S, origin, index) ==
    LET r == refund_decision_deposit(S, origin, index)
        info == S.infos[index]
    IN  IF info.kind = "Ongoing" THEN r.err = "Unfinished"
        ELSE IF info.kind = "Killed" \/ info.decision_deposit = None
        THEN r.err = "NoDeposit"
        ELSE LET deposit == Unwrap(info.decision_deposit)
             IN  /\ r.err = "Ok"
                 /\ deposit.amount <= S.reserved[deposit.who]
                 /\ [r.S EXCEPT !.ev = << >>] =
                        Refunded(S, index, [info EXCEPT !.decision_deposit = None],
                                 deposit)
                 /\ r.S.ev = << IndexDepositEvent("DecisionDepositRefunded",
                                                  index, deposit) >>
                 /\ \A again \in Origins \ {NoOrigin} :
                        refund_decision_deposit(r.S, again, index).err = "NoDeposit"

\* C16: in every reachable state, refund_decision_deposit(index) by a signed
\* or root origin fails with Unfinished when the record is Ongoing and with
\* NoDeposit when it is finished and holds no decision deposit (Killed
\* included); otherwise it moves exactly the stored amount from reserved to
\* free of the stored depositor, takes the deposit off the record, changes
\* nothing else, and a second call fails with NoDeposit.
C16_RefundDecisionDeposit ==
    \A index \in DOMAIN ReferendumInfoFor :
        \A origin \in Origins \ {NoOrigin} :
            DecisionDepositRefund(CurrentStorage, origin, index)

\* A referendum that was decided (it had a decision deposit) and holds none
\* any more: the deposit was refunded.
C16_Witness ==
    \E index \in DOMAIN ReferendumInfoFor :
        /\ ReferendumInfoFor[index].kind \in {"Approved", "Rejected"}
        /\ ReferendumInfoFor[index].decision_deposit = None
        /\ refund_decision_deposit(CurrentStorage, Root, index).err = "NoDeposit"

\* The outcome of refund_submission_deposit(index) on storage S.
SubmissionDepositRefund(S, origin, index) ==
    LET r == refund_submission_deposit(S, origin, index)
        info == S.infos[index]
    IN  IF info.kind \in {"Ongoing", "Killed"} THEN r.err = "BadStatus"
        ELSE /\ info.kind \in {"Approved", "Rejected", "Cancelled", "TimedOut"}
             /\ IF info.submission_deposit = None THEN r.err = "NoDeposit"
                ELSE LET deposit == Unwrap(info.submission_deposit)
                     IN  /\ r.err = "Ok"
                         /\ deposit.amount <= S.reserved[deposit.who]
                         /\ [r.S EXCEPT !.ev = << >>] =
                                Refunded(S, index,
                                         [info EXCEPT !.submission_deposit = None],
                                         deposit)
                         /\ r.S.ev = << IndexDepositEvent("SubmissionDepositRefunded",
                                                          index, deposit) >>
                         /\ \A again \in Origins \ {NoOrigin} :
                                refund_submission_deposit(r.S, again, index).err
                                    = "NoDeposit"

\* C17: in every reachable state, refund_submission_deposit(index) by a signed
\* or root origin succeeds on an Approved, Rejected, Cancelled or TimedOut
\* record that holds its submission deposit, moving it from reserved to free
\* of the submitter and taking it off the record; it fails with BadStatus on a
\* Killed or Ongoing record, and with NoDeposit once the deposit was refunded.
C17_RefundSubmissionDeposit ==
    \A index \in DOMAIN ReferendumInfoFor :
        \A origin \in Origins \ {NoOrigin} :
            SubmissionDepositRefund(CurrentStorage, origin, index)

\* A finished referendum whose submission deposit was refunded, next to a
\* Killed one.
C17_Witness ==
    \E index, other \in DOMAIN ReferendumInfoFor :
        /\ ReferendumInfoFor[index].kind \in {"Approved", "Rejected", "Cancelled", "TimedOut"}
        /\ ReferendumInfoFor[index].submission_deposit = None
        /\ refund_submission_deposit(CurrentStorage, Root, index).err = "NoDeposit"
        /\ ReferendumInfoFor[other].kind = "Killed"
        /\ refund_submission_deposit(CurrentStorage, Root, other).err = "BadStatus"

\* The agenda once the alarm of `status` is cancelled: the entry under the
\* stored address is gone, every other entry stays.
AlarmCancelled(ag, status) ==
    IF IsSome(status.alarm)
    THEN { task \in ag : <<task.when, task.index>> # Unwrap(status.alarm)[2] }
    ELSE ag

\* The reserved balances without the amount of `deposit`, if there is one.
Without(res, deposit) ==
    IF IsSome(deposit)
    THEN [res EXCEPT ![Unwrap(deposit).who] = @ - Unwrap(deposit).amount]
    ELSE res

\* The DepositSlashed event of `deposit`, if there is one.
Slashed(deposit) ==
    IF IsSome(deposit)
    THEN << DepositEvent("DepositSlashed", Unwrap(deposit)) >>
    ELSE << >>

\* What a kill of the Ongoing referendum `index` has done to storage S.
KillSlashesAndClears(S, index) ==
    LET r == kill(S, now, Root, index)
        status == S.infos[index].status
        sub == Some(status.submission_deposit)
        dec == status.decision_deposit
    IN  /\ r.err = "Ok"
        /\ r.S.infos = [S.infos EXCEPT ![index] = [kind |-> "Killed", end |-> now]]
        /\ status.submission_deposit.amount <= S.reserved[status.submission_deposit.who]
        /\ r.S.reserved = Without(Without(S.reserved, sub), dec)
        /\ r.S.free = S.free
        /\ r.S.ev = << Event("Killed", index) >> \o Slashed(sub) \o Slashed(dec)
                    \o (IF index \in DOMAIN S.meta
                        THEN << HashEvent("MetadataCleared", index, S.meta[index]) >>
                        ELSE << >>)
        /\ index \notin DOMAIN r.S.meta
        /\ \A i \in DOMAIN S.meta \ {index} :
              i \in DOMAIN r.S.meta /\ r.S.meta[i] = S.meta[i]
        /\ AlarmCancelled(S.ag, status) \subseteq r.S.ag
        /\ \A task \in r.S.ag \ AlarmCancelled(S.ag, status) :
              task.call = OneFewerCall(status.track)
        /\ \A origin \in Origins \ {NoOrigin} :
              /\ refund_submission_deposit(r.S, origin, index).err = "BadStatus"
              /\ refund_decision_deposit(r.S, origin, index).err = "NoDeposit"

\* C18: in every reachable state, a kill of an Ongoing referendum slashes its
\* submission deposit and, if present, its decision deposit, with one
\* DepositSlashed event each, removes its metadata, cancels its alarm in the
\* scheduler and stores Killed(now); afterwards refund_submission_deposit
\* fails with BadStatus and refund_decision_deposit fails too.
C18_KillSlashesAndClears ==
    \A index \in DOMAIN ReferendumInfoFor :
        ReferendumInfoFor[index].kind = "Ongoing" =>
            KillSlashesAndClears(CurrentStorage, index)

\* A referendum killed in this block, its metadata gone, after which the
\* submitter and the depositor each own less than at genesis.
C18_Witness ==
    \E index \in DOMAIN ReferendumInfoFor :
        /\ ReferendumInfoFor[index] = [kind |-> "Killed", end |-> now]
        /\ index \notin DOMAIN MetadataOf
        /\ \E a, b \in Accounts :
              /\ a # b
              /\ free[a] + reserved[a] < InitialBalance
              /\ free[b] + reserved[b] < InitialBalance
        /\ refund_submission_deposit(CurrentStorage, Root, index).err = "BadStatus"

\* What a cancel of the Ongoing referendum `index` has done to storage S.
CancelKeepsDeposits(S, index) ==
    LET r == cancel(S, now, Root, index)
        status == S.infos[index].status
    IN  /\ r.err = "Ok"
        /\ r.S.infos = [S.infos EXCEPT ![index] =
                           [kind |-> "Cancelled", end |-> now,
                            submission_deposit |-> Some(status.submission_deposit),
                            decision_deposit |-> status.decision_deposit]]
        /\ r.S.reserved = S.reserved
        /\ r.S.free = S.free
        /\ AlarmCancelled(S.ag, status) \subseteq r.S.ag
        /\ \A task \in r.S.ag \ AlarmCancelled(S.ag, status) :
              task.call = OneFewerCall(status.track)
        /\ \A origin \in Origins \ {NoOrigin} :
              /\ refund_submission_deposit(r.S, origin, index).err = "Ok"
              /\ IsSome(status.decision_deposit) =>
                    refund_decision_deposit(r.S, origin, index).err = "Ok"

\* C19: in every reachable state, a cancel of an Ongoing referendum cancels its
\* alarm in the scheduler, moves no balance and stores Cancelled(now,
\* Some(submission_deposit), decision_deposit) with both deposits as they were
\* on the Ongoing record; both can be refunded afterwards.
C19_CancelKeepsDeposits ==
    \A index \in DOMAIN ReferendumInfoFor :
        ReferendumInfoFor[index].kind = "Ongoing" =>
            CancelKeepsDeposits(CurrentStorage, index)

\* A referendum cancelled in this block that holds both its deposits, still
\* reserved.
C19_Witness ==
    \E index \in DOMAIN ReferendumInfoFor :
        /\ ReferendumInfoFor[index].kind = "Cancelled"
        /\ ReferendumInfoFor[index].end = now
        /\ IsSome(ReferendumInfoFor[index].submission_deposit)
        /\ IsSome(ReferendumInfoFor[index].decision_deposit)
        /\ refund_decision_deposit(CurrentStorage, Root, index).err = "Ok"
        /\ refund_submission_deposit(CurrentStorage, Root, index).err = "Ok"

\* Positions of the entries of `queue` whose referendum is Ongoing in S.
OngoingEntries(S, queue) ==
    { k \in 1 .. Len(queue) : IsSome(EnsureOngoing(S.infos, queue[k][1])) }

\* What one_fewer_deciding(track) has done to storage S.
OneFewerDecidingDoes(S, track) ==
    LET r == one_fewer_deciding(S, now, Root, track)
        queue == S.q[track]
        live == OngoingEntries(S, queue)
    IN  /\ r.err = "Ok"
        /\ IF live # {}
           THEN \E k \in live :
                  LET index == queue[k][1]
                      after == r.S.infos[index]
                  IN  /\ \A j \in live : queue[j][2] <= queue[k][2]
                      /\ r.S.q[track] = SubSeq(queue, 1, k - 1)
                      /\ after.kind = "Ongoing"
                      /\ after.status.in_queue = FALSE
                      /\ IsSome(after.status.deciding)
                      /\ Unwrap(after.status.deciding).since = now
                      /\ IsSome(after.status.alarm)
                      /\ Unwrap(after.status.alarm)[1] > now
                      /\ AlarmSetAt(r.S.ag, after.status.alarm,
                                    Unwrap(after.status.alarm)[1], NudgeCall(index))
                      /\ r.S.dc = S.dc
                      /\ \A i \in DOMAIN S.infos \ {index} : r.S.infos[i] = S.infos[i]
           ELSE /\ r.S.dc = [S.dc EXCEPT ![track] = Max(@ - 1, 0)]
                /\ r.S.infos = S.infos

\* C20: in every reachable state, one_fewer_deciding(track) takes the Ongoing
\* entry with the highest ayes off TrackQueue[track]; if there is one, that
\* referendum begins deciding in the current block (in_queue = false,
\* deciding.since = now, an alarm set in the scheduler) and DecidingCount is
\* left alone; if there is none, DecidingCount[track] goes down by one, not
\* below zero, and no record changes.
C20_OneFewerDeciding ==
    \A track \in TrackIds : OneFewerDecidingDoes(CurrentStorage, track)

\* A referendum that began deciding in this block on a track whose only slot
\* is held by a referendum deciding since an earlier block: it took the slot
\* through one_fewer_deciding.
C20_Witness ==
    \E i, j \in DOMAIN ReferendumInfoFor :
        /\ i # j
        /\ ReferendumInfoFor[i].kind = "Ongoing"
        /\ ReferendumInfoFor[j].kind = "Ongoing"
        /\ LET si == ReferendumInfoFor[i].status
               sj == ReferendumInfoFor[j].status
           IN  /\ si.track = sj.track
               /\ IsSome(si.deciding) /\ Unwrap(si.deciding).since = now
               /\ IsSome(sj.deciding) /\ Unwrap(sj.deciding).since < now
               /\ ~si.in_queue
               /\ Position(TrackQueue[si.track], i) = None
               /\ DecidingCount[si.track] = 1

\* C21: in every reachable state, nudge_referendum on a referendum in a
\* terminal state fails with NothingToDo and changes nothing.
C21_NudgeTerminalNothingToDo ==
    \A index \in DOMAIN ReferendumInfoFor :
        Terminal(ReferendumInfoFor[index]) =>
            LET r == nudge_referendum(CurrentStorage, now, Root, index, 0)
            IN  r.err = "NothingToDo" /\ r.S = CurrentStorage

\* The entries of the agenda that nudge referendum `index`.
NudgesIn(ag, index) == { task \in ag : task.call = NudgeCall(index) }

\* What access_poll(index, f) passes to f and leaves in storage S, f leaving
\* `tally` on an Ongoing referendum.
AccessPollDoes(S, index, tally) ==
    LET r == access_poll(S, now, index, tally)
        kind == IF index \in DOMAIN S.infos THEN S.infos[index].kind ELSE "Unknown"
    IN  /\ r.err = "Ok"
        /\ kind = "Ongoing" =>
              LET before == S.infos[index].status
                  after == r.S.infos[index]
              IN  /\ r.passed = [kind |-> "Ongoing", tally |-> before.tally,
                                 track |-> before.track]
                  /\ after.kind = "Ongoing"
                  /\ after.status.tally = tally
                  /\ [after.status EXCEPT !.alarm = None] =
                         [before EXCEPT !.tally = tally, !.alarm = None]
                  /\ AlarmSetAt(r.S.ag, after.status.alarm, RoundedUp(now + 1),
                                NudgeCall(index))
                  /\ Cardinality(NudgesIn(r.S.ag, index)) = 1
                  /\ \A i \in DOMAIN S.infos \ {index} : r.S.infos[i] = S.infos[i]
        /\ kind = "Approved" =>
              r.passed = [kind |-> "Completed", end |-> S.infos[index].end,
                          approved |-> TRUE]
        /\ kind = "Rejected" =>
              r.passed = [kind |-> "Completed", end |-> S.infos[index].end,
                          approved |-> FALSE]
        /\ kind \in {"Cancelled", "TimedOut", "Killed", "Unknown"} =>
              r.passed = [kind |-> "None"]
        /\ kind # "Ongoing" => r.S = S

\* C22: in every reachable state, access_poll on an Ongoing referendum passes
\* f the tally and the track, stores the tally f leaves and leaves the record
\* with exactly one alarm, at now + 1 rounded up to a multiple of
\* AlarmInterval; on an Approved or Rejected record it passes Completed(end,
\* true) or Completed(end, false); on a Cancelled, TimedOut or Killed record
\* and on an unknown index it passes None; when the referendum is not Ongoing
\* nothing changes in storage or in the scheduler.
C22_AccessPoll ==
    \A index \in AnyIndex, tally \in cfg.tallies :
        AccessPollDoes(CurrentStorage, index, tally)

\* A referendum polled in this block: its tally is no longer the fresh one
\* and its alarm is at the multiple of AlarmInterval after now.
C22_Witness ==
    \E index \in DOMAIN ReferendumInfoFor :
        /\ ReferendumInfoFor[index].kind = "Ongoing"
        /\ ReferendumInfoFor[index].status.tally # TallyNew
        /\ ReferendumInfoFor[index].status.submitted < now
        /\ RoundedUp(now + 1) # now + 1
        /\ AlarmSetAt(Agenda, ReferendumInfoFor[index].status.alarm,
                      RoundedUp(now + 1), NudgeCall(index))
        /\ Cardinality(NudgesIn(Agenda, index)) = 1

\* The metadata map without the entry of `index`.
MetadataWithout(meta, index) == [i \in DOMAIN meta \ {index} |-> meta[i]]

\* The metadata map with `hash` under `index`.
MetadataWith(meta, index, hash) ==
    [i \in DOMAIN meta \cup {index} |-> IF i = index THEN hash ELSE meta[i]]

\* The outcome of set_metadata(signer, index, maybe_hash) on storage S.
SetMetadataDoes(S, signer, index, maybe_hash) ==
    LET r == set_metadata(S, Signed(signer), index, maybe_hash)
        ongoing == index \in DOMAIN S.infos /\ S.infos[index].kind = "Ongoing"
        depositor == ongoing /\ S.infos[index].status.submission_deposit.who = signer
    IN  /\ r.err # "Ok" => r.S = S
        /\ [r.S EXCEPT !.meta = S.meta, !.ev = << >>] = S
        /\ IF IsSome(maybe_hash)
           THEN /\ r.err = "Ok" <=> (depositor /\ Unwrap(maybe_hash) \in cfg.hashes)
                /\ r.err = "Ok" =>
                      r.S.meta = MetadataWith(S.meta, index, Unwrap(maybe_hash))
           ELSE /\ (ongoing /\ ~depositor) => r.err = "NoPermission"
                /\ (~ongoing \/ depositor) =>
                      /\ r.err = "Ok"
                      /\ r.S.meta = MetadataWithout(S.meta, index)
                /\ index \notin DOMAIN S.infos => r.err = "Ok"

\* C23: in every reachable state, set_metadata(signer, index, Some(hash))
\* writes MetadataOf[index] only when the referendum is Ongoing, the signer is
\* its submission depositor and the preimage exists, and fails otherwise;
\* set_metadata(signer, index, None) clears MetadataOf[index] for any signer
\* when the referendum is finished, succeeds when the index is unknown, and
\* fails with NoPermission for an Ongoing referendum unless the signer is the
\* submission depositor.
C23_SetMetadata ==
    \A signer \in Accounts, index \in AnyIndex, maybe_hash \in AnyHash :
        SetMetadataDoes(CurrentStorage, signer, index, maybe_hash)

\* The metadata of an Ongoing referendum is set, and another account may not
\* clear it.
C23_Witness ==
    \E index \in DOMAIN MetadataOf, other \in Accounts :
        /\ index \in DOMAIN ReferendumInfoFor
        /\ ReferendumInfoFor[index].kind = "Ongoing"
        /\ MetadataOf[index] \in cfg.hashes
        /\ set_metadata(CurrentStorage, Signed(other), index, None).err = "NoPermission"

\* C24: in every reachable state every key of MetadataOf is a key of
\* ReferendumInfoFor.
C24_MetadataKeysAreReferenda ==
    DOMAIN MetadataOf \subseteq DOMAIN ReferendumInfoFor

\* A referendum has metadata.
C24_Witness ==
    \E index \in DOMAIN MetadataOf : index \in DOMAIN ReferendumInfoFor

\* The event a referendum left Ongoing by a service step waits for: the
\* confirmation end or the next crossing of the curves (at the latest the end
\* of the decision period) when deciding, the end of the preparation when it
\* has a decision deposit, and the decision-deposit deadline otherwise.
SoonestEvent(status) ==
    IF IsSome(status.deciding)
    THEN decision_time(Unwrap(status.deciding), status.tally, cfg.tracks[status.track])
    ELSE IF IsSome(status.decision_deposit)
    THEN status.submitted + cfg.tracks[status.track].prepare_period
    ELSE status.submitted + cfg.UndecidingTimeout

\* What a service step has left of referendum `index` in storage S: a finished
\* record with no nudge in the scheduler, or an Ongoing record with its one
\* alarm at the soonest event (in the next block when the event is not after
\* now, and at the multiple of AlarmInterval from there on); with queued_rest,
\* a queued referendum has no nudge in the scheduler instead.
ServiceLeaves(S, index, queued_rest) ==
    LET info == S.infos[index] IN
    IF Terminal(info) THEN NudgesIn(S.ag, index) = {}
    ELSE IF queued_rest /\ info.status.in_queue /\ IsNone(info.status.deciding)
    THEN NudgesIn(S.ag, index) = {}
    ELSE /\ AlarmSetAt(S.ag, info.status.alarm, RoundedUp(Max(SoonestEvent(info.status), now + 1)),
                       NudgeCall(index))
         /\ Cardinality(NudgesIn(S.ag, index)) = 1

\* Every service step that can be taken in the current state, from
\* place_decision_deposit or from the nudge_referendum the scheduler is about
\* to dispatch, leaves its referendum as ServiceLeaves says.
EveryServiceLeaves(queued_rest) ==
    /\ \A who \in Accounts, index \in AnyIndex :
          \A pos \in SearchPositions(CurrentStorage, index) :
              \A r \in {place_decision_deposit(CurrentStorage, now, Signed(who),
                                               index, pos)} :
                  r.err = "Ok" => ServiceLeaves(r.S, index, queued_rest)
    /\ (~Idle /\ NextTask(Agenda, now).call.name = "nudge_referendum") =>
          \A task \in {NextTask(Agenda, now)} :
              \A pos \in SearchPositions(Dispatched(task), task.call.arg) :
                  \A r \in {nudge_referendum(Dispatched(task), now, Root,
                                             task.call.arg, pos)} :
                      r.err = "Ok" => ServiceLeaves(r.S, task.call.arg, queued_rest)

\* C25 as stated: after service_referendum returns (from
\* place_decision_deposit or nudge_referendum) the record is finished with no
\* alarm left in the scheduler, or Ongoing with its alarm set at the soonest
\* informative event; no Ongoing record is left without an alarm.
C25_ServiceLeavesAlarm == EveryServiceLeaves(FALSE)

\* C25 with queued referenda set apart: a referendum left queued has no alarm
\* in the scheduler, every other Ongoing one has its alarm at the soonest
\* informative event.
C25_ServiceLeavesAlarmUnlessQueued == EveryServiceLeaves(TRUE)

\* The scheduler is about to dispatch the nudge_referendum of referendum i.
ServicedNow(i) == ~Idle /\ NextTask(Agenda, now).call = NudgeCall(i)

\* A deciding referendum with this status is passing in the current block.
PassingNow(status) ==
    is_passing(status.tally, SatSub(now, Unwrap(status.deciding).since),
               cfg.tracks[status.track].decision_period,
               cfg.tracks[status.track].min_support,
               cfg.tracks[status.track].min_approval)

\* The one_fewer_deciding calls for `track` in the agenda.
OneFewerIn(ag, track) == { task \in ag : task.call = OneFewerCall(track) }

\* The step concludes deciding referendum i of `track` as `kind`: the record is
\* kind(now, ..), no nudge of i is left in the scheduler, and one
\* one_fewer_deciding for the track has been added to those still pending.
ConcludedAs(i, kind, track) ==
    /\ ReferendumInfoFor'[i].kind = kind
    /\ ReferendumInfoFor'[i].end = now
    /\ NudgesIn(Agenda', i) = {}
    /\ OneFewerIn(Agenda, track) \ {NextTask(Agenda, now)} \subseteq OneFewerIn(Agenda', track)
    /\ Cardinality(OneFewerIn(Agenda', track)) =
          Cardinality(OneFewerIn(Agenda, track) \ {NextTask(Agenda, now)}) + 1

\* Referendum i is Ongoing and deciding before the step.
DecidingBefore(i) ==
    /\ ReferendumInfoFor[i].kind = "Ongoing"
    /\ IsSome(ReferendumInfoFor[i].status.deciding)

\* The confirming field of referendum i before the step.
ConfirmingBefore(i) == Unwrap(ReferendumInfoFor[i].status.deciding).confirming

\* The step approves referendum i.
Approves(i) ==
    /\ ReferendumInfoFor[i].kind = "Ongoing"
    /\ ReferendumInfoFor'[i].kind = "Approved"

\* The step starts a confirmation of referendum i.
StartsConfirming(i) ==
    /\ ReferendumInfoFor'[i].kind = "Ongoing"
    /\ IsSome(ReferendumInfoFor'[i].status.deciding)
    /\ IsSome(Unwrap(ReferendumInfoFor'[i].status.deciding).confirming)
    /\ ~DecidingBefore(i) \/ IsNone(ConfirmingBefore(i))

ApprovedWhenConfirmed(i) ==
    /\ Approves(i) =>
          /\ DecidingBefore(i)
          /\ ServicedNow(i)
          /\ PassingNow(ReferendumInfoFor[i].status)
          /\ IsSome(ConfirmingBefore(i))
          /\ now >= Unwrap(ConfirmingBefore(i))
          /\ ConcludedAs(i, "Approved", ReferendumInfoFor[i].status.track)
    /\ ( /\ DecidingBefore(i)
         /\ ServicedNow(i)
         /\ PassingNow(ReferendumInfoFor[i].status)
         /\ IsSome(ConfirmingBefore(i))
         /\ now >= Unwrap(ConfirmingBefore(i)) ) => Approves(i)
    /\ StartsConfirming(i) =>
          Unwrap(ReferendumInfoFor'[i].status.deciding).confirming =
              Some(now + cfg.tracks[ReferendumInfoFor'[i].status.track].confirm_period)

\* C26: a step approves a deciding referendum exactly when it services it at a
\* block at which it is passing and its confirming block t has come (now >= t);
\* a confirmation that starts at block b has t = b + confirm_period, so that
\* Approved(end) has end >= b + confirm_period; no service at which it is not
\* passing approves it; the approval leaves no alarm for it in the scheduler
\* and schedules exactly one one_fewer_deciding for its track.
C26_ApprovedWhenConfirmed ==
    [][\A i \in DOMAIN ReferendumInfoFor : ApprovedWhenConfirmed(i)]_vars

\* A referendum approved in this block, its one_fewer_deciding pending.
C26_Witness ==
    \E i \in DOMAIN ReferendumInfoFor :
        /\ ReferendumInfoFor[i].kind = "Approved"
        /\ ReferendumInfoFor[i].end = now
        /\ NudgesIn(Agenda, i) = {}
        /\ \E track \in TrackIds : OneFewerIn(Agenda, track) # {}

\* `e` is among the events deposited in S.
Emitted(S, e) == \E k \in DOMAIN S.ev : S.ev[k] = e

\* What the service of referendum `index`, deciding in storage S, leaves when
\* the nudge_referendum the scheduler dispatches returns storage R.
DecidingServiceLeaves(S, R, index) ==
    LET status == S.infos[index].status
        deciding == Unwrap(status.deciding)
        track == cfg.tracks[status.track]
        after == R.infos[index]
    IN  IF PassingNow(status)
        THEN after.kind # "Rejected"
        ELSE IF now >= deciding.since + track.decision_period
        THEN /\ after.kind = "Rejected"
             /\ after.end = now
             /\ NudgesIn(R.ag, index) = {}
             /\ OneFewerIn(S.ag, status.track) \subseteq OneFewerIn(R.ag, status.track)
             /\ Cardinality(OneFewerIn(R.ag, status.track)) =
                   Cardinality(OneFewerIn(S.ag, status.track)) + 1
        ELSE /\ after.kind = "Ongoing"
             /\ after.status.deciding = Some([deciding EXCEPT !.confirming = None])
             /\ IsSome(deciding.confirming) <=> Emitted(R, Event("ConfirmAborted", index))

\* C27: when the scheduler services a deciding referendum at a block where it
\* is not passing, the referendum becomes Rejected(now, ..) if and only if
\* now >= since + decision_period, its alarm being cancelled and one
\* one_fewer_deciding for its track scheduled; otherwise it stays Ongoing with
\* confirming = None, ConfirmAborted being emitted when a confirmation was in
\* progress.  A referendum that is passing when serviced is not rejected, even
\* after the decision period.
C27_RejectedWhenPeriodOver ==
    \A i \in DOMAIN ReferendumInfoFor :
        (ServicedNow(i) /\ DecidingBefore(i)) =>
            \A S \in {Dispatched(NextTask(Agenda, now))} :
                \A pos \in SearchPositions(S, i) :
                    DecidingServiceLeaves(S, nudge_referendum(S, now, Root, i, pos).S, i)

\* A referendum rejected in this block, its one_fewer_deciding pending.
C27_Witness ==
    \E i \in DOMAIN ReferendumInfoFor :
        /\ ReferendumInfoFor[i].kind = "Rejected"
        /\ ReferendumInfoFor[i].end = now
        /\ NudgesIn(Agenda, i) = {}
        /\ \E track \in TrackIds : OneFewerIn(Agenda, track) # {}

\* What a service step on referendum `index`, not deciding in storage S, has
\* done about the undeciding timeout when it leaves storage R: a record left
\* Ongoing, not deciding and not queued has not reached the timeout; a record
\* concluded is TimedOut(now, Some(submission_deposit), decision_deposit), the
\* timeout is reached, the referendum was not queued, no nudge of it is left
\* and the deposits are where they were.
TimeoutServiced(S, R, index) ==
    LET status == S.infos[index].status
        timeout == status.submitted + cfg.UndecidingTimeout
        after == R.infos[index]
    IN  /\ after.kind \in {"Ongoing", "TimedOut"}
        /\ after.kind = "Ongoing" =>
              \/ IsSome(after.status.deciding)
              \/ after.status.in_queue
              \/ now < timeout
        /\ after.kind = "TimedOut" =>
              /\ now >= timeout
              /\ ~status.in_queue
              /\ after.end = now
              /\ after.submission_deposit = Some(status.submission_deposit)
              /\ IsSome(status.decision_deposit) =>
                    after.decision_deposit = status.decision_deposit
              /\ NudgesIn(R.ag, index) = {}
              /\ \A who \in Accounts :
                    R.reserved[who] + R.free[who] = S.reserved[who] + S.free[who]

\* Every service step on a referendum that is not deciding, from
\* place_decision_deposit or from the nudge_referendum the scheduler is about
\* to dispatch, treats the timeout as TimeoutServiced says.
EveryTimeoutServiced ==
    /\ \A who \in Accounts, index \in AnyIndex :
          \A pos \in SearchPositions(CurrentStorage, index) :
              \A r \in {place_decision_deposit(CurrentStorage, now, Signed(who),
                                               index, pos)} :
                  r.err = "Ok" =>
                     /\ TimeoutServiced(CurrentStorage, r.S, index)
                     /\ r.S.infos[index].kind = "TimedOut" =>
                           /\ r.S.infos[index].decision_deposit =
                                 Some([who |-> who,
                                       amount |-> cfg.tracks[StatusOf(index).track]
                                                     .decision_deposit])
                           /\ r.S.reserved[who] = reserved[who]
                                 + cfg.tracks[StatusOf(index).track].decision_deposit
    /\ \A i \in DOMAIN ReferendumInfoFor :
          ( /\ ServicedNow(i)
            /\ ReferendumInfoFor[i].kind = "Ongoing"
            /\ IsNone(StatusOf(i).deciding) ) =>
              \A S \in {Dispatched(NextTask(Agenda, now))} :
                  \A pos \in SearchPositions(S, i) :
                      \A r \in {nudge_referendum(S, now, Root, i, pos)} :
                          /\ TimeoutServiced(S, r.S, i)
                          /\ r.S.reserved = S.reserved

\* Once the scheduler has run in a block, every Ongoing referendum without
\* decision deposit is still before its deadline: submitted + UndecidingTimeout,
\* or with `rounded` the multiple of AlarmInterval from there on.
TimedOutByDeadline(rounded) ==
    Idle =>
      \A i \in DOMAIN ReferendumInfoFor :
          ( /\ ReferendumInfoFor[i].kind = "Ongoing"
            /\ IsNone(StatusOf(i).decision_deposit) ) =>
              now < (IF rounded
                     THEN RoundedUp(StatusOf(i).submitted + cfg.UndecidingTimeout)
                     ELSE StatusOf(i).submitted + cfg.UndecidingTimeout)

\* C28 as stated: a service step concludes a referendum as TimedOut(now,
\* Some(submission_deposit), decision_deposit), its alarm cancelled and both
\* deposits kept, exactly when after the step it is still not deciding, not
\* queued, and now >= submitted + UndecidingTimeout; a referendum submitted at
\* block s that gets no decision deposit is timed out by its alarm at
\* s + UndecidingTimeout and not earlier.
C28_TimedOutAtDeadline == EveryTimeoutServiced /\ TimedOutByDeadline(FALSE)

\* C28 amended: the same, the referendum without decision deposit being timed
\* out by its alarm at s + UndecidingTimeout rounded up to a multiple of
\* AlarmInterval.
C28_TimedOutAtRoundedDeadline == EveryTimeoutServiced /\ TimedOutByDeadline(TRUE)

\* A referendum without decision deposit timed out in this block, after its
\* deadline, which is no multiple of AlarmInterval.
C28_Witness ==
    \E i \in DOMAIN ReferendumInfoFor :
        /\ ReferendumInfoFor[i].kind = "TimedOut"
        /\ ReferendumInfoFor[i].end = now
        /\ ReferendumInfoFor[i].decision_deposit = None
        /\ IsSome(ReferendumInfoFor[i].submission_deposit)
        /\ now % cfg.AlarmInterval = 0
        /\ now > cfg.UndecidingTimeout
        /\ NudgesIn(Agenda, i) = {}

\* The queue is sorted ascending by ayes.
SortedByAyes(queue) ==
    \A k \in 1 .. (Len(queue) - 1) : queue[k][2] <= queue[k + 1][2]

\* `new` is `old` with `item` inserted at a position that keeps it sorted.
InsertedSorted(old, new, item) ==
    /\ SortedByAyes(new)
    /\ \E k \in 1 .. Len(new) :
          /\ new[k] = item
          /\ old = SubSeq(new, 1, k - 1) \o SubSeq(new, k + 1, Len(new))

\* The admission of `item` to the queue `old`: inserted at its sorted position
\* when there is room; when the queue is full, with admission, the entry with
\* the fewest ayes makes room unless the item has fewer ayes than it (with the
\* same ayes either may happen), and the queue is otherwise left as it was.
Admitted(old, new, item, admission) ==
    IF admission /\ Len(old) = cfg.MaxQueued
    THEN /\ new = old \/ InsertedSorted(Tail(old), new, item)
         /\ item[2] < old[1][2] => new = old
         /\ item[2] > old[1][2] => new # old
    ELSE InsertedSorted(old, new, item)

\* What the service of referendum `index` has done when its preparation is
\* over: S is the storage before, R the storage after.
PreparedServiced(S, R, index, admission) ==
    LET status == S.infos[index].status
        id == status.track
        track == cfg.tracks[id]
        after == R.infos[index]
    IN  /\ after.kind = "Ongoing"
        /\ IF S.dc[id] < track.max_deciding
           THEN /\ R.dc[id] = S.dc[id] + 1
                /\ ~after.status.in_queue
                /\ after.status.deciding =
                      Some([since |-> now,
                            confirming |->
                               IF is_passing(status.tally, 0, track.decision_period,
                                             track.min_support, track.min_approval)
                               THEN Some(now + track.confirm_period)
                               ELSE None])
                /\ R.q = S.q
           ELSE /\ R.dc = S.dc
                /\ after.status.in_queue
                /\ after.status.deciding = None
                /\ Admitted(S.q[id], R.q[id], <<index, Ayes(status.tally)>>, admission)

\* Every service step on a referendum that is not deciding and not queued and
\* whose preparation is over, from a place_decision_deposit or from the
\* nudge_referendum the scheduler is about to dispatch on a referendum with a
\* decision deposit, does what PreparedServiced says.
EveryPreparedServiced(admission) ==
    /\ \A who \in Accounts, index \in AnyIndex :
          \A pos \in SearchPositions(CurrentStorage, index) :
              \A r \in {place_decision_deposit(CurrentStorage, now, Signed(who),
                                               index, pos)} :
                  ( /\ r.err = "Ok"
                    /\ ~StatusOf(index).in_queue
                    /\ now >= StatusOf(index).submitted
                                 + cfg.tracks[StatusOf(index).track].prepare_period ) =>
                      PreparedServiced(CurrentStorage, r.S, index, admission)
    /\ \A i \in DOMAIN ReferendumInfoFor :
          ( /\ ServicedNow(i)
            /\ ReferendumInfoFor[i].kind = "Ongoing"
            /\ IsNone(StatusOf(i).deciding)
            /\ ~StatusOf(i).in_queue
            /\ IsSome(StatusOf(i).decision_deposit)
            /\ now >= StatusOf(i).submitted
                         + cfg.tracks[StatusOf(i).track].prepare_period ) =>
              \A S \in {Dispatched(NextTask(Agenda, now))} :
                  \A pos \in SearchPositions(S, i) :
                      PreparedServiced(S, nudge_referendum(S, now, Root, i, pos).S,
                                       i, admission)

DecidingAlarm(status) ==
    LET deciding == Unwrap(status.deciding)
        track == cfg.tracks[status.track]
        crossing == Max(CurveDelay(track.min_support, status.tally.support),
                        CurveDelay(track.min_approval, status.tally.approval))
    IN  Max(IF IsSome(deciding.confirming)
            THEN Unwrap(deciding.confirming)
            ELSE deciding.since + MulCeil(crossing, track.decision_period),
            now + 1)

\* A service step that leaves referendum `index` deciding in storage R leaves
\* its alarm at DecidingAlarm (set_alarm bringing it to a multiple of
\* AlarmInterval), after the current block and held by the scheduler.
DecidingAlarmSet(R, index) ==
    LET after == R.infos[index] IN
    (after.kind = "Ongoing" /\ IsSome(after.status.deciding)) =>
        /\ AlarmSetAt(R.ag, after.status.alarm, RoundedUp(DecidingAlarm(after.status)),
                      NudgeCall(index))
        /\ Unwrap(after.status.alarm)[1] > now

\* C30: after any service step (from place_decision_deposit or from the
\* nudge_referendum the scheduler is about to dispatch) that leaves a
\* referendum deciding at block now, its alarm is its confirming block t when
\* confirming = Some(t), and otherwise since + ceil(max(min_support
\* .delay(support), min_approval.delay(approval)) * decision_period), in both
\* cases at least now + 1: the alarm of a deciding referendum is never at or
\* before the block in which it was serviced.
C30_DecidingAlarmAfterNow ==
    /\ \A who \in Accounts, index \in AnyIndex :
          \A pos \in SearchPositions(CurrentStorage, index) :
              \A r \in {place_decision_deposit(CurrentStorage, now, Signed(who),
                                               index, pos)} :
                  r.err = "Ok" => DecidingAlarmSet(r.S, index)
    /\ \A i \in DOMAIN ReferendumInfoFor :
          (ServicedNow(i) /\ ReferendumInfoFor[i].kind = "Ongoing") =>
              \A S \in {Dispatched(NextTask(Agenda, now))} :
                  \A pos \in SearchPositions(S, i) :
                      DecidingAlarmSet(nudge_referendum(S, now, Root, i, pos).S, i)

\* The blocks after now an alarm may be asked for.
AlarmBlocks == (now + 1) .. (cfg.maxBlock + 2)

\* ensure_alarm_at(status, index, w) on storage S, then once more with the
\* same w on what the first call left: the second call returns false and
\* leaves the status and the scheduler as they were.
SecondEnsureIsNoOp(S, status, index, w) ==
    \A a \in {ensure_alarm_at(S, now, status, index, w)} :
        \A b \in {ensure_alarm_at(a.S, now, a.status, index, w)} :
            /\ ~b.changed
            /\ b.status = a.status
            /\ b.S = a.S

\* C31: in every reachable state, for every Ongoing referendum and every
\* block w after now, ensure_alarm_at(status, index, w) called twice in a row
\* changes nothing on the second call and returns false, whatever
\* AlarmInterval is and whether or not w is a multiple of it.
C31_EnsureAlarmAtIdempotent ==
    \A i \in DOMAIN ReferendumInfoFor :
        ReferendumInfoFor[i].kind = "Ongoing" =>
            \A w \in AlarmBlocks :
                SecondEnsureIsNoOp(CurrentStorage, StatusOf(i), i, w)

\* The enactment calls of referendum `index` in the agenda.
EnactmentsIn(ag, index) == { task \in ag : task.call = EnactmentCall(index) }

\* The service of referendum `index` (status as in storage S) that approves it
\* and leaves storage R has scheduled its one enactment, at the desired block
\* or at the earliest allowed one, whichever is later, and after now.
EnactmentScheduled(S, R, index) ==
    LET status == S.infos[index].status
        track == cfg.tracks[status.track]
        when == Max(Evaluate(status.enactment, now),
                    now + Max(track.min_enactment_period, 1))
    IN  R.infos[index].kind = "Approved" =>
          /\ Cardinality(EnactmentsIn(R.ag, index)) = 1
          /\ \A task \in EnactmentsIn(R.ag, index) :
                /\ task.when = when
                /\ task.when > now
          /\ EnactmentsIn(S.ag, index) = {}

\* C32: when the service the scheduler is about to dispatch approves a
\* referendum at block now, exactly one enactment is scheduled for it, at
\* block max(evaluate(enactment, now), now + max(min_enactment_period, 1)),
\* which is after now also for enactment = At(0) and min_enactment_period = 0.
C32_EnactmentAfterApproval ==
    \A i \in DOMAIN ReferendumInfoFor :
        (ServicedNow(i) /\ ReferendumInfoFor[i].kind = "Ongoing") =>
            \A S \in {Dispatched(NextTask(Agenda, now))} :
                \A pos \in SearchPositions(S, i) :
                    EnactmentScheduled(S, nudge_referendum(S, now, Root, i, pos).S, i)

\* A referendum approved in this block on a track without minimum enactment
\* period, its enactment waiting for the next block.
C32_Witness ==
    \E i \in DOMAIN ReferendumInfoFor :
        /\ ReferendumInfoFor[i].kind = "Approved"
        /\ ReferendumInfoFor[i].end = now
        /\ \A t \in TrackIds : cfg.tracks[t].min_enactment_period = 0
        /\ Cardinality(EnactmentsIn(Agenda, i)) = 1
        /\ \A task \in EnactmentsIn(Agenda, i) : task.when = now + 1

\* The positions of `queue` whose referendum is Ongoing.
LivePositions(queue) ==
    { k \in 1 .. Len(queue) : IsSome(EnsureOngoing(ReferendumInfoFor, queue[k][1])) }

\* next_for_deciding on `queue`: without Ongoing entry it finds nothing and
\* empties the queue; otherwise it returns the Ongoing entry nearest to the
\* high end, which has the highest stored ayes of the Ongoing ones, and leaves
\* the entries below it in place.
NextForDecidingDoes(queue) ==
    \A r \in {next_for_deciding(ReferendumInfoFor, queue)} :
        IF LivePositions(queue) = {}
        THEN ~r.found /\ r.queue = << >>
        ELSE \E k \in LivePositions(queue) :
                /\ \A j \in LivePositions(queue) :
                      j <= k /\ queue[j][2] <= queue[k][2]
                /\ r.found
                /\ r.index = queue[k][1]
                /\ r.queue = SubSeq(queue, 1, k - 1)

\* C33: in every reachable state, next_for_deciding on the queue of any track
\* removes entries from the high-ayes end, discards every entry whose
\* referendum is no longer Ongoing and returns the first Ongoing one, the
\* Ongoing entry with the highest stored ayes, or nothing when no Ongoing
\* entry remains; the entries below the returned one stay in place and order.
C33_NextForDeciding ==
    \A track \in TrackIds : NextForDecidingDoes(TrackQueue[track])

\* A queue whose entry at the high end belongs to a referendum that is no
\* longer Ongoing, above the entry of an Ongoing one.
C33_Witness ==
    \E track \in TrackIds :
        /\ Len(TrackQueue[track]) >= 2
        /\ Len(TrackQueue[track]) \notin LivePositions(TrackQueue[track])
        /\ LivePositions(TrackQueue[track]) # {}

\* The entry of referendum `index` is in `queue`.
InQueue(queue, index) == \E p \in DOMAIN queue : queue[p][1] = index

\* What a full queue `old` has become for `item`: with more ayes than the
\* entry with the fewest, the item is in and that entry is out; otherwise the
\* queue is as it was.  With `ties`, an item with as many ayes as the entry
\* with the fewest may go either way.
FullQueueAdmits(old, new, item, ties) ==
    /\ new = old \/ InsertedSorted(Tail(old), new, item)
    /\ item[2] > old[1][2] => new # old
    /\ item[2] < old[1][2] => new = old
    /\ (~ties /\ item[2] = old[1][2]) => new = old

\* A service step that leaves referendum `index` queued (storage S before, R
\* after) when it had no entry in the full queue of its track.
FullQueueServiced(S, R, index, ties) ==
    LET id == S.infos[index].status.track
        after == R.infos[index]
    IN  ( /\ Len(S.q[id]) = cfg.MaxQueued
          /\ ~InQueue(S.q[id], index)
          /\ after.kind = "Ongoing"
          /\ after.status.in_queue
          /\ IsNone(after.status.deciding) ) =>
            FullQueueAdmits(S.q[id], R.q[id], <<index, Ayes(after.status.tally)>>, ties)

\* No queue is longer than MaxQueued, and every service step that can be
\* taken in the current state, from place_decision_deposit or from the
\* nudge_referendum the scheduler is about to dispatch, treats a full queue as
\* FullQueueServiced says.
QueueBounded(ties) ==
    /\ \A track \in TrackIds : Len(TrackQueue[track]) <= cfg.MaxQueued
    /\ \A who \in Accounts, index \in AnyIndex :
          \A pos \in SearchPositions(CurrentStorage, index) :
              \A r \in {place_decision_deposit(CurrentStorage, now, Signed(who),
                                               index, pos)} :
                  r.err = "Ok" => FullQueueServiced(CurrentStorage, r.S, index, ties)
    /\ \A i \in DOMAIN ReferendumInfoFor :
          (ServicedNow(i) /\ ReferendumInfoFor[i].kind = "Ongoing") =>
              \A S \in {Dispatched(NextTask(Agenda, now))} :
                  \A pos \in SearchPositions(S, i) :
                      FullQueueServiced(S, nudge_referendum(S, now, Root, i, pos).S,
                                        i, ties)

\* C34 as stated: TrackQueue[T] never holds more than MaxQueued entries; a
\* referendum to be inserted into a full queue is admitted only if its ayes
\* exceed the current minimum, the entry with the minimum being evicted, and
\* otherwise the queue is unchanged.
C34_FullQueueAdmitsAboveMinimum == QueueBounded(FALSE)

\* C34 amended: the same, except that a referendum with exactly the minimum
\* ayes may be admitted too, evicting an entry with as many ayes as its own.
C34_FullQueueAdmitsFromMinimum == QueueBounded(TRUE)

\* A full queue of two from which an entry was evicted: a referendum marked
\* in_queue has no entry any more, and the two entries are of other referenda.
C34_Witness ==
    \E track \in TrackIds, i \in DOMAIN ReferendumInfoFor :
        /\ Len(TrackQueue[track]) = cfg.MaxQueued
        /\ cfg.MaxQueued = 2
        /\ ReferendumInfoFor[i].kind = "Ongoing"
        /\ StatusOf(i).track = track
        /\ StatusOf(i).in_queue
        /\ ~InQueue(TrackQueue[track], i)
        /\ \E j \in DOMAIN ReferendumInfoFor :
              /\ j > i
              /\ InQueue(TrackQueue[track], j)

\* `queue` without the entry of referendum `index`.
RECURSIVE OthersIn(_, _)
OthersIn(queue, index) ==
    IF queue = << >> THEN << >>
    ELSE IF Head(queue)[1] = index THEN OthersIn(Tail(queue), index)
    ELSE <<Head(queue)>> \o OthersIn(Tail(queue), index)

\* The service of queued referendum `index`, which has an entry in the queue
\* of its track (storage S before, R after): the entry carries the current
\* ayes, the queue is sorted and as long as before, the other entries are in
\* the order they were in, the referendum is still queued and not deciding,
\* and when it has more ayes than every other entry next_for_deciding yields it.
RequeuedSorted(S, R, index) ==
    LET status == S.infos[index].status
        old == S.q[status.track]
        new == R.q[status.track]
        after == R.infos[index]
    IN  /\ Len(new) = Len(old)
        /\ \E p \in DOMAIN new : new[p] = <<index, Ayes(status.tally)>>
        /\ OthersIn(new, index) = OthersIn(old, index)
        /\ SortedByAyes(new)
        /\ after.kind = "Ongoing"
        /\ after.status.in_queue
        /\ after.status.deciding = None
        /\ (\A p \in DOMAIN new : new[p][1] # index => new[p][2] < Ayes(status.tally)) =>
              /\ next_for_deciding(R.infos, new).found
              /\ next_for_deciding(R.infos, new).index = index

\* C35: when the scheduler services a referendum with in_queue = true that has
\* an entry in the queue of its track, the entry gets the current ayes and
\* moves to the matching sorted position, the other entries keep their order,
\* the queue keeps its length and the referendum stays not deciding; an entry
\* that rises above all others is the one next_for_deciding yields.
C35_RequeueKeepsQueueSorted ==
    \A i \in DOMAIN ReferendumInfoFor :
        ( /\ ServicedNow(i)
          /\ ReferendumInfoFor[i].kind = "Ongoing"
          /\ StatusOf(i).in_queue
          /\ IsNone(StatusOf(i).deciding)
          /\ InQueue(TrackQueue[StatusOf(i).track], i) ) =>
            \A S \in {Dispatched(NextTask(Agenda, now))} :
                \A pos \in SearchPositions(S, i) :
                    RequeuedSorted(S, nudge_referendum(S, now, Root, i, pos).S, i)

\* A queue of three whose last entry is of a referendum queued before the one
\* in front of it: its ayes rose and it was moved up.
C35_Witness ==
    \E track \in TrackIds :
        /\ Len(TrackQueue[track]) = 3
        /\ TrackQueue[track][3][1] < TrackQueue[track][2][1]
        /\ TrackQueue[track][3][2] > TrackQueue[track][2][2]
        /\ SortedByAyes(TrackQueue[track])


\* The step dispatches the one_fewer_deciding of `track` that is due.
OneFewerDispatched(track) == ~Idle /\ NextTask(Agenda, now).call = OneFewerCall(track)

\* The step concludes the deciding referendum i as Approved or Rejected.
Concludes(i) ==
    /\ ServicedNow(i)
    /\ DecidingBefore(i)
    /\ ReferendumInfoFor'[i].kind \in {"Approved", "Rejected"}

\* The step makes referendum i, waiting in the queue of its track, begin
\* deciding.
QueuedBegins(i) ==
    /\ ReferendumInfoFor[i].kind = "Ongoing"
    /\ StatusOf(i).in_queue
    /\ IsNone(StatusOf(i).deciding)
    /\ ReferendumInfoFor'[i].kind = "Ongoing"
    /\ IsSome(ReferendumInfoFor'[i].status.deciding)

\* How a deciding slot of a track passes on, alarms being set for every block:
\* a deciding referendum concluded in block b with an Ongoing referendum in the
\* queue leaves DecidingCount alone and a one_fewer_deciding for block b + 1;
\* that call, dispatched in its block, makes the Ongoing entry with the
\* highest stored ayes begin deciding in that block and leaves DecidingCount
\* alone.  With `ended`, a queued referendum begins deciding only in the place
\* of a deciding one that has ended: fewer referenda are deciding than
\* DecidingCount counts.
SlotPassesOn(ended) ==
    /\ \A i \in Referenda :
          (Concludes(i) /\ LivePositions(TrackQueue[StatusOf(i).track]) # {}) =>
              /\ DecidingCount'[StatusOf(i).track] = DecidingCount[StatusOf(i).track]
              /\ \E task \in Agenda' \ Agenda :
                    /\ task.call = OneFewerCall(StatusOf(i).track)
                    /\ task.when = now + 1
    /\ \A track \in TrackIds :
          (OneFewerDispatched(track) /\ LivePositions(TrackQueue[track]) # {}) =>
              \E p \in LivePositions(TrackQueue[track]) :
                  /\ \A o \in LivePositions(TrackQueue[track]) :
                        TrackQueue[track][o][2] <= TrackQueue[track][p][2]
                  /\ QueuedBegins(TrackQueue[track][p][1])
                  /\ Unwrap(ReferendumInfoFor'[TrackQueue[track][p][1]].status.deciding).since
                        = now
                  /\ NextTask(Agenda, now).when = now
                  /\ DecidingCount'[track] = DecidingCount[track]
    /\ ended =>
          \A i \in Referenda :
              QueuedBegins(i) =>
                  Cardinality(DecidingOn(StatusOf(i).track))
                      < DecidingCount[StatusOf(i).track]

\* C36: with an alarm interval of one block, when a deciding referendum is
\* approved or rejected in block b while an Ongoing referendum is queued on its
\* track, the queued Ongoing referendum with the highest ayes begins deciding
\* in block b + 1 with since = b + 1, DecidingCount is the same before and
\* after, and no queued referendum begins deciding before a deciding one has
\* ended.
C36_SlotPassesToQueued == [][SlotPassesOn(TRUE)]_vars

\* Without the last part: every conclusion and every dispatched
\* one_fewer_deciding passes the slot on as described.
C36_SlotPassesToQueuedWhenDispatched == [][SlotPassesOn(FALSE)]_vars


\* The block at which the decision period of a referendum with this status is
\* over.
PeriodOver(status) ==
    Unwrap(status.deciding).since + cfg.tracks[status.track].decision_period

\* What the service of referendum `index`, deciding and not passing in storage
\* S, leaves when the nudge_referendum the scheduler dispatches returns storage
\* R: Rejected(now, ..) in the block the decision period is over, Ongoing in
\* every block before it.
RejectedAtPeriodOver(S, R, index) ==
    /\ now < PeriodOver(S.infos[index].status) => R.infos[index].kind = "Ongoing"
    /\ now = PeriodOver(S.infos[index].status) =>
          /\ R.infos[index].kind = "Rejected"
          /\ R.infos[index].end = now

\* C37: with an alarm interval of one block, a referendum that began deciding
\* at block s and has not been found passing is serviced at block
\* s + decision_period and rejected there, and at no earlier service: until
\* then a nudge_referendum for it is pending at a block from now to
\* s + decision_period, the block does not end after s + decision_period with
\* the referendum still deciding unconfirmed, and a service that finds it not
\* passing leaves it Ongoing before that block and Rejected at it.
C37_RejectedExactlyAtPeriodOver ==
    \A i \in Referenda :
        (DecidingBefore(i) /\ IsNone(ConfirmingBefore(i))) =>
            /\ now <= PeriodOver(StatusOf(i))
            /\ Idle => now < PeriodOver(StatusOf(i))
            /\ \E task \in NudgesOf(i) :
                  /\ now <= task.when
                  /\ task.when <= PeriodOver(StatusOf(i))
            /\ (ServicedNow(i) /\ ~PassingNow(StatusOf(i))) =>
                  \A S \in {Dispatched(NextTask(Agenda, now))} :
                      \A pos \in SearchPositions(S, i) :
                          RejectedAtPeriodOver(S, nudge_referendum(S, now, Root, i, pos).S, i)

\* A referendum that began deciding with no vote is about to be serviced in
\* the block its decision period is over, never having been confirming.
C37_Witness ==
    \E i \in Referenda :
        /\ ServicedNow(i)
        /\ DecidingBefore(i)
        /\ IsNone(ConfirmingBefore(i))
        /\ StatusOf(i).tally = TallyNew
        /\ now = PeriodOver(StatusOf(i))
        /\ now > Unwrap(StatusOf(i).deciding).since


\* Referendum i is Ongoing with in_queue = true, no entry in the queue of its
\* track and no nudge_referendum pending: no dispatch of the scheduler will
\* touch it.
Stranded(i) ==
    /\ i \in Referenda
    /\ ReferendumInfoFor[i].kind = "Ongoing"
    /\ StatusOf(i).in_queue
    /\ ~InQueue(TrackQueue[StatusOf(i).track], i)
    /\ NudgesOf(i) = {}

\* The scheduler still has something to do for the Ongoing referendum i: a
\* nudge_referendum of it is pending, or it waits in the queue of a track
\* whose slot is held or about to be handed on.
Driven(i) ==
    /\ i \in Referenda
    /\ ReferendumInfoFor[i].kind = "Ongoing"
    /\ \/ NudgesOf(i) # {}
       \/ /\ InQueue(TrackQueue[StatusOf(i).track], i)
          /\ \/ DecidingOn(StatusOf(i).track) # {}
             \/ OneFewerIn(Agenda, StatusOf(i).track) # {}

\* Referendum i has reached a terminal state, or the run has reached its last
\* block with the scheduler still driving i.
ConcludedOrDriven(i) ==
    \/ i \in Referenda /\ Terminal(ReferendumInfoFor[i])
    \/ now = cfg.maxBlock /\ Driven(i)

\* C38: every alarm firing at its block, every submitted referendum eventually
\* reaches a terminal state (in a run that ends at a last block: or is still
\* driven by the scheduler there) without being cancelled or killed; no
\* Ongoing referendum remains forever with in_queue = true, without queue
\* entry and without alarm.
C38_EventuallyTerminal ==
    \A i \in 0 .. (MaxReferendaMany - 1) :
        /\ (i \in Referenda) ~> ConcludedOrDriven(i)
        /\ []<>(~Stranded(i))


\* C39: on every track, DecidingCount is the number of Ongoing referenda of
\* the track whose `deciding` is Some plus the number of one_fewer_deciding
\* calls for the track pending in the scheduler.
C39_DecidingCountBalanced ==
    \A track \in TrackIds :
        DecidingCount[track] =
            Cardinality(DecidingOn(track)) + Cardinality(OneFewerIn(Agenda, track))


\* Referendum i is Ongoing with in_queue = true and no entry in the queue of
\* its track, in the given records and queues.
QueuedWithoutEntry(infos, queues, i) ==
    /\ i \in DOMAIN infos
    /\ infos[i].kind = "Ongoing"
    /\ infos[i].status.in_queue
    /\ ~InQueue(queues[infos[i].status.track], i)

===========================================================================
